---------------------------- MODULE Spec2Model ----------------------------
(***************************************************************************)
(* A model of the flow-shop / job-shop scheduling demo:                    *)
(*   - src/src/model_data.py         Task, JobShopData                     *)
(*   - src/src/job_shop_scheduler.py JobShopSchedulingModel and            *)
(*                                   run_shop_scheduler                    *)
(*   - src/src/generate_charts.py    get_minimum_task_times,               *)
(*                                   generate_gantt_chart                  *)
(*   - src/app.py                    the callbacks of the dashboard        *)
(*                                                                         *)
(* Spec      : the JobShopData object under any sequence of calls.         *)
(* SpecModel : run_shop_scheduler's pipeline on an instance: bound         *)
(*             estimation, CQM building and the hybrid CQM solve.          *)
(* SpecEstimate   : SpecModel with the model constructed a second time.    *)
(* SpecScenario   : the CQM pipeline on the two-job scenario.              *)
(* SpecStrategies : run_shop_scheduler with each of the three solvers.     *)
(* SpecEndTimes   : _calculate_end_times on a solved job order.            *)
(* SpecCharts     : get_minimum_task_times on an instance.                 *)
(* SpecGantt      : generate_gantt_chart called twice on one frame.        *)
(* SpecSort       : the sorted views of a schedule, one after another.     *)
(* SpecLoad       : load_from_file among the other calls of JobShopData.   *)
(* SpecFit        : the CQM built for instances of three resources.        *)
(* SpecVerbose    : run_shop_scheduler with and without verbose.           *)
(* SpecLabels     : the labels of the CQM variables, written and parsed.   *)
(* SpecRun        : the callbacks fired by the Run and Cancel buttons.     *)
(***************************************************************************)
EXTENDS Integers, Sequences, FiniteSets, TLC

VARIABLES
    jobs,        \* JobShopData._jobs
    resources,   \* JobShopData._resources
    job_tasks,   \* JobShopData._job_tasks : job -> list of Task objects
    processing_times, \* JobShopData._processing_times, set by load_from_file
    last,        \* the last call made on the JobShopData and how it ended
    pc,          \* position of run_shop_scheduler
    args,        \* arguments of run_shop_scheduler
    model,       \* the JobShopSchedulingModel object (its attributes)
    estimates,   \* the bounds computed by the constructions so far
    backend,     \* the solvers: what they were handed and the warnings issued
    app          \* the dashboard: the data frames, stores and buttons its
                 \* callbacks read and write

vars == <<jobs, resources, job_tasks, processing_times,
          last, pc, args, model, estimates, backend, app>>
data_vars == <<jobs, resources, job_tasks, processing_times>>
pipeline_vars == <<pc, args, model, estimates, backend, app>>

---------------------------------------------------------------------------
(* Bounds of the model *)

\* longest operation list of a job in Spec
MaxLen == 3
\* largest make_span argument of get_task_time_bounds in Spec
MaxSpan == 4
\* largest max_makespan argument of run_shop_scheduler in SpecModel
MaxMakespanArg == 2
\* num_samples of generate_greedy_makespan in SpecModel (the default is 100;
\* the minimum of n >= 1 random runs ranges over the same values for every n)
NumSamples == 2

Jobs == {"a", "b"}
Resources == {"r1", "r2"}

\* Python compares job names as strings (j < k); rank gives that order.
JobRank == [a |-> 1, b |-> 2]
StrLess(j, k) == JobRank[j] < JobRank[k]

---------------------------------------------------------------------------
(* Numbers that may be Python floats (the bound is greedy * 1.4): exact    *)
(* fractions num/den with den > 0.                                         *)

Num(i) == [num |-> i, den |-> 1]
NumEq(p, q) == p.num * q.den = q.num * p.den
NumLeq(p, q) == p.num * q.den <= q.num * p.den
NumAdd(p, q) == [num |-> p.num * q.den + q.num * p.den, den |-> p.den * q.den]
NumNeg(p) == [num |-> 0 - p.num, den |-> p.den]
NumMulInt(p, i) == [num |-> p.num * i, den |-> p.den]
NumSubInt(p, i) == [num |-> p.num - i * p.den, den |-> p.den]
\* the largest integer <= p
NumFloor(p) == p.num \div p.den

---------------------------------------------------------------------------
(* Sequences as Python lists *)

RECURSIVE SumDuration(_)
\* sum(x.duration for x in tasks)
SumDuration(tasks) ==
    IF tasks = <<>> THEN 0
    ELSE Head(tasks).duration + SumDuration(Tail(tasks))

\* list.insert(position, x) for position >= 0: past the end it appends
ListInsert(list, position, x) ==
    LET p == IF position > Len(list) THEN Len(list) ELSE position
    IN  SubSeq(list, 1, p) \o <<x>> \o SubSeq(list, p + 1, Len(list))

\* the 0-based index of the first element equal to x, -1 when there is none
ListIndex(list, x) ==
    IF \E i \in 1..Len(list) : list[i] = x
    THEN (CHOOSE i \in 1..Len(list) :
            list[i] = x /\ \A k \in 1..(i - 1) : list[k] # x) - 1
    ELSE -1

\* list.remove(x): the list without the first element equal to x
ListRemove(list, x) ==
    LET i == ListIndex(list, x) + 1
    IN  SubSeq(list, 1, i - 1) \o SubSeq(list, i + 1, Len(list))

\* list[lo:hi] with 0 <= lo, as Python slices (0-based, hi exclusive)
Slice(list, lo, hi) ==
    SubSeq(list, lo + 1, IF hi > Len(list) THEN Len(list) ELSE hi)

RECURSIVE SetToSeq(_)
SetToSeq(S) ==
    IF S = {} THEN <<>>
    ELSE LET x == CHOOSE y \in S : TRUE IN <<x>> \o SetToSeq(S \ {x})

\* every order in which a Python set can be iterated
Orders(S) ==
    {s \in [1..Cardinality(S) -> S] : \A i, k \in 1..Cardinality(S) : s[i] = s[k] => i = k}

Min(S) == CHOOSE x \in S : \A y \in S : x <= y

---------------------------------------------------------------------------
(* class Task.  A Task object is a record; id is the object's identity     *)
(* (Task defines no __eq__, so two Tasks are equal only if the same        *)
(* object).                                                                *)

Task(id, job, resource, duration) ==
    [id |-> id, job |-> job, resource |-> resource, duration |-> duration]

\* The Task objects the callers of Spec hold.
TaskPool ==
    { Task(1, "a", "r1", 2), Task(2, "a", "r2", 1), Task(3, "a", "r1", 3),
      Task(4, "b", "r1", 0), Task(5, "b", "r2", -1) }

Positions == -1 .. (MaxLen + 1)

---------------------------------------------------------------------------
(* class JobShopData *)

Call(op, outcome, a, value) ==
    [op |-> op, outcome |-> outcome, args |-> a, value |-> value]

\* dict with a key added (or overwritten) / deleted
DictSet(d, k, v) == [x \in DOMAIN d \cup {k} |-> IF x = k THEN v ELSE d[x]]
DictDel(d, k) == [x \in DOMAIN d \ {k} |-> d[x]]

RECURSIVE Flatten(_, _)
Flatten(d, keys) ==
    IF keys = <<>> THEN <<>> ELSE d[Head(keys)] \o Flatten(d, Tail(keys))

\* get_tasks(): the lists of all jobs, concatenated (in the dict's order;
\* every caller filters by job, which no order of the keys changes)
get_tasks == Flatten(job_tasks, SetToSeq(DOMAIN job_tasks))

\* _processing_times = None
NotLoaded == [loaded |-> FALSE, times |-> <<>>]

IdlePipeline ==
    /\ pc = "idle"
    /\ args = <<>>
    /\ model = <<>>
    /\ estimates = <<>>
    /\ backend = <<>>
    /\ app = <<>>

\* JobShopData(jobs, resources)
Init ==
    /\ jobs \in SUBSET Jobs
    /\ resources \in SUBSET Resources
    /\ job_tasks = [job \in jobs |-> <<>>]
    /\ processing_times = NotLoaded
    /\ last = Call("JobShopData", "ok", <<>>, <<>>)
    /\ IdlePipeline

add_job(job) ==
    /\ IF job \in jobs
       THEN /\ UNCHANGED data_vars
            /\ last' = Call("add_job", "ValueError", <<>>, <<>>)
       ELSE /\ jobs' = jobs \cup {job}
            /\ job_tasks' = DictSet(job_tasks, job, <<>>)
            /\ UNCHANGED resources
            /\ last' = Call("add_job", "ok", <<>>, <<>>)
    /\ UNCHANGED <<processing_times, pipeline_vars>>

add_resource(resource) ==
    /\ resources' = resources \cup {resource}
    /\ UNCHANGED <<jobs, job_tasks>>
    /\ last' = Call("add_resource", "ok", <<>>, <<>>)
    /\ UNCHANGED <<processing_times, pipeline_vars>>

\* add_task(task, position); position_given = FALSE is position=None.
\* add_task_from_data builds the Task and calls this.
add_task(task, position_given, position) ==
    LET resources1 == resources \cup {task.resource}
        jobs1 == jobs \cup {task.job}
        job_tasks1 == IF task.job \in jobs THEN job_tasks
                      ELSE DictSet(job_tasks, task.job, <<>>)
        position1 == IF position_given THEN position
                     ELSE Len(job_tasks1[task.job])
    IN  /\ resources' = resources1
        /\ jobs' = jobs1
        /\ IF task.duration < 0 \/ position1 < 0
           THEN /\ job_tasks' = job_tasks1
                /\ last' = Call("add_task", "ValueError", <<>>, <<>>)
           ELSE /\ Len(job_tasks1[task.job]) < MaxLen
                /\ job_tasks' = [job_tasks1 EXCEPT ![task.job] =
                                    ListInsert(@, position1, task)]
                /\ last' = Call("add_task", "ok", <<>>, <<>>)
        /\ UNCHANGED <<processing_times, pipeline_vars>>

remove_task(task) ==
    /\ IF task.job \notin DOMAIN job_tasks
       THEN /\ UNCHANGED data_vars
            /\ last' = Call("remove_task", "KeyError", <<>>, <<>>)
       ELSE IF ListIndex(job_tasks[task.job], task) < 0
       THEN /\ UNCHANGED data_vars
            /\ last' = Call("remove_task", "ValueError", <<>>, <<>>)
       ELSE /\ job_tasks' = [job_tasks EXCEPT ![task.job] = ListRemove(@, task)]
            /\ UNCHANGED <<jobs, resources>>
            /\ last' = Call("remove_task", "ok", <<>>, <<>>)
    /\ UNCHANGED <<processing_times, pipeline_vars>>

\* remove_job without del self._job_tasks[job]
remove_job_keeps_tasks(job) ==
    /\ IF job \notin jobs
       THEN /\ UNCHANGED data_vars
            /\ last' = Call("remove_job", "KeyError", <<>>, <<>>)
       ELSE /\ jobs' = jobs \ {job}
            /\ UNCHANGED <<job_tasks, resources>>
            /\ last' = Call("remove_job", "ok", <<>>, <<>>)
    /\ UNCHANGED <<processing_times, pipeline_vars>>

remove_job(job) ==
    /\ IF job \notin jobs
       THEN /\ UNCHANGED data_vars
            /\ last' = Call("remove_job", "KeyError", <<>>, <<>>)
       ELSE /\ jobs' = jobs \ {job}
            /\ job_tasks' = DictDel(job_tasks, job)
            /\ UNCHANGED resources
            /\ last' = Call("remove_job", "ok", <<>>, <<>>)
    /\ UNCHANGED <<processing_times, pipeline_vars>>

Ret(outcome, value) == [outcome |-> outcome, value |-> value]

\* get_task_position(task): the value is <<position>>
get_task_position(task) ==
    IF task.job \notin jobs THEN Ret("ValueError", <<>>)
    ELSE IF task.job \notin DOMAIN job_tasks THEN Ret("KeyError", <<>>)
    ELSE IF ListIndex(job_tasks[task.job], task) < 0 THEN Ret("ValueError", <<>>)
    ELSE Ret("ok", <<ListIndex(job_tasks[task.job], task)>>)

\* get_resource_job_tasks(resource, job): the value is <<task>>
get_resource_job_tasks(resource, job) ==
    IF resource \notin resources THEN Ret("ValueError", <<>>)
    ELSE IF job \notin jobs THEN Ret("ValueError", <<>>)
    ELSE IF job \notin DOMAIN job_tasks THEN Ret("KeyError", <<>>)
    ELSE LET on_resource == SelectSeq(job_tasks[job],
                                      LAMBDA task : task.resource = resource)
         IN  IF on_resource = <<>> THEN Ret("IndexError", <<>>)
             ELSE Ret("ok", <<on_resource[1]>>)

\* get_task_time_bounds without subtracting the task's own duration
get_task_time_bounds_without_own(task, make_span) ==
    LET tasks_of_job == SelectSeq(get_tasks, LAMBDA x : x.job = task.job)
        task_position == get_task_position(task)
    IN  IF task_position.outcome # "ok" THEN Ret(task_position.outcome, <<>>)
        ELSE LET p == task_position.value[1]
             IN  Ret("ok", <<SumDuration(Slice(tasks_of_job, 0, p)),
                             NumSubInt(make_span,
                                SumDuration(Slice(tasks_of_job, p + 1, Len(tasks_of_job))))>>)

\* get_task_time_bounds(task, make_span): the value is <<earliest, latest>>,
\* earliest an integer and latest a number like make_span
get_task_time_bounds(task, make_span) ==
    LET tasks_of_job == SelectSeq(get_tasks, LAMBDA x : x.job = task.job)
        task_position == get_task_position(task)
    IN  IF task_position.outcome # "ok" THEN Ret(task_position.outcome, <<>>)
        ELSE LET p == task_position.value[1]
                 prior_tasks == Slice(tasks_of_job, 0, p)
                 subsequent_tasks == Slice(tasks_of_job, p + 1, Len(tasks_of_job))
                 prior_time == SumDuration(prior_tasks)
                 subsequent_time == SumDuration(subsequent_tasks)
             IN  Ret("ok", <<prior_time,
                             NumSubInt(make_span, subsequent_time + task.duration)>>)

\* a caller asks for a task's position
call_get_task_position(task) ==
    /\ last' = Call("get_task_position", get_task_position(task).outcome,
                    <<task>>, get_task_position(task).value)
    /\ UNCHANGED <<data_vars, pipeline_vars>>

\* a caller asks for a job's operation on a resource
call_get_resource_job_tasks(resource, job) ==
    /\ last' = Call("get_resource_job_tasks",
                    get_resource_job_tasks(resource, job).outcome,
                    <<resource, job>>,
                    get_resource_job_tasks(resource, job).value)
    /\ UNCHANGED <<data_vars, pipeline_vars>>

\* a caller asks for a task's time bounds
call_get_task_time_bounds(task, make_span) ==
    /\ last' = Call("get_task_time_bounds",
                    get_task_time_bounds(task, Num(make_span)).outcome,
                    <<task, make_span>>,
                    get_task_time_bounds(task, Num(make_span)).value)
    /\ UNCHANGED <<data_vars, pipeline_vars>>

Next ==
    \/ \E job \in Jobs : add_job(job)
    \/ \E resource \in Resources : add_resource(resource)
    \/ \E task \in TaskPool, given \in BOOLEAN, position \in Positions :
          add_task(task, given, position)
    \/ \E task \in TaskPool : remove_task(task)
    \/ \E job \in Jobs : remove_job(job)
    \/ \E task \in TaskPool : call_get_task_position(task)
    \/ \E resource \in Resources, job \in Jobs :
          call_get_resource_job_tasks(resource, job)
    \/ \E task \in TaskPool, make_span \in 0..MaxSpan :
          call_get_task_time_bounds(task, make_span)

Spec == Init /\ [][Next]_vars

---------------------------------------------------------------------------
(* Claims about JobShopData, checked under Spec *)

\* the entries of all operation lists, as <<job key, 1-based index>>
Entries ==
    UNION {{<<job, i>> : i \in 1..Len(job_tasks[job])} : job \in DOMAIN job_tasks}

\* C1: after any sequence of add_job, add_resource, add_task, remove_task and
\* remove_job calls, those that raise included, every task stored in
\* job_tasks has its job in jobs and its resource in resources.
C1_StoredTasksAreRegistered ==
    \A e \in Entries :
        /\ job_tasks[e[1]][e[2]].job \in jobs
        /\ job_tasks[e[1]][e[2]].resource \in resources

\* a job was removed while another job still holds tasks
C1_Witness ==
    /\ last.op = "remove_job"
    /\ last.outcome = "ok"
    /\ Entries # {}

\* C2 (as claimed): an add_task that is rejected with an error leaves jobs,
\* resources and every job's operation list as they were before the call.
C2_RejectedAddTaskChangesNothing ==
    [][(last'.op = "add_task" /\ last'.outcome = "ValueError")
        => (jobs' = jobs /\ resources' = resources /\ job_tasks' = job_tasks)]_vars

\* C3 (as claimed): get_task_position maps the operations of each job
\* one-to-one onto 0..n-1 in route order: the operation at route index i
\* has position i, so no two share a position and there is no gap.
C3_PositionsUniqueAndContiguous ==
    \A e \in Entries :
        /\ get_task_position(job_tasks[e[1]][e[2]]).outcome = "ok"
        /\ get_task_position(job_tasks[e[1]][e[2]]).value = <<e[2] - 1>>

\* the job's operations on the resource
OperationsOn(resource, job) ==
    IF job \in DOMAIN job_tasks
    THEN {job_tasks[job][i] : i \in {k \in 1..Len(job_tasks[job]) :
                                        job_tasks[job][k].resource = resource}}
    ELSE {}

\* C4 (as claimed): get_resource_job_tasks(resource, job) returns the
\* operation of that job on that resource, and ends in the not-found error
\* (the ValueError the method documents) when the job never visits the
\* resource, whether both are registered or one of them is not.
C4_NotFoundWhenNeverVisited ==
    last.op = "get_resource_job_tasks" =>
        IF OperationsOn(last.args[1], last.args[2]) = {}
        THEN last.outcome = "ValueError"
        ELSE /\ last.outcome = "ok"
             /\ last.value[1] \in OperationsOn(last.args[1], last.args[2])

RECURSIVE SumOfDurations(_, _, _)
\* the durations of list[lo..hi] (1-based, inclusive) added up
SumOfDurations(list, lo, hi) ==
    IF lo > hi THEN 0 ELSE list[hi].duration + SumOfDurations(list, lo, hi - 1)

\* the last call was get_task_time_bounds on a task stored in its job
BoundsAsked ==
    /\ last.op = "get_task_time_bounds"
    /\ last.args[1].job \in jobs
    /\ ListIndex(job_tasks[last.args[1].job], last.args[1]) >= 0

\* C5 (as claimed): get_task_time_bounds returns (earliest, latest) with
\* earliest the sum of the durations before the operation in its job and
\* latest the makespan bound minus the sum of the durations after it.
C5_LatestIsBoundMinusAfter ==
    BoundsAsked =>
        LET task == last.args[1]
            route == job_tasks[task.job]
            at == ListIndex(route, task) + 1
        IN  /\ last.outcome = "ok"
            /\ last.value[1] = SumOfDurations(route, 1, at - 1)
            /\ NumEq(last.value[2],
                     Num(last.args[2] - SumOfDurations(route, at + 1, Len(route))))

\* C5 (amended): latest is the makespan bound minus the sum of the durations
\* after the operation minus the operation's own duration; before and after
\* are taken at the position get_task_position reports.
C5_LatestIsBoundMinusAfterMinusOwn ==
    BoundsAsked =>
        LET task == last.args[1]
            route == job_tasks[task.job]
            at == ListIndex(route, task) + 1
        IN  /\ last.outcome = "ok"
            /\ last.value[1] = SumOfDurations(route, 1, at - 1)
            /\ NumEq(last.value[2],
                     Num(last.args[2] - SumOfDurations(route, at + 1, Len(route))
                         - task.duration))

\* the bounds of an operation with operations before and after it were asked
C5_Witness ==
    /\ BoundsAsked
    /\ last.outcome = "ok"
    /\ last.value[1] > 0
    /\ ListIndex(job_tasks[last.args[1].job], last.args[1]) + 1
          < Len(job_tasks[last.args[1].job])
    /\ last.args[1].duration > 0

---------------------------------------------------------------------------
(* run_shop_scheduler on an instance: the inputs of SpecModel *)

\* the durations of the operations of the instances
Durations == {0, 1}

\* solver_time_limit: the default of run_shop_scheduler
DefaultTimeLimit == 60
\* LeapHybridCQMSampler.min_time_limit(cqm), in seconds
MinTimeLimit == 5

\* greedy_multiplier: the default 1.4, or 1 passed by the caller
DefaultMultiplier == [num |-> 14, den |-> 10]
Multipliers == {DefaultMultiplier, Num(1)}

\* the route of a job: one Task object per resource visited, in order
RouteOf(job, visits, durations) ==
    [i \in 1..Len(visits) |->
        Task(JobRank[job] * 10 + i, job, visits[i], durations[i])]

RoutesOf(job, orders) ==
    UNION {{RouteOf(job, visits, durations) :
                durations \in [1..Len(visits) -> Durations]} : visits \in orders}

\* job a visits r1 then r2; job b visits both in either order, or only r1,
\* or nothing
RoutesA == RoutesOf("a", {<<"r1", "r2">>})
RoutesB == RoutesOf("b", {<<"r1", "r2">>, <<"r2", "r1">>, <<"r1">>, <<>>})

\* max_makespan=None is max_makespan_given = FALSE; the caller passes a
\* max_makespan or a greedy_multiplier, or neither
Arguments ==
    {a \in [max_makespan_given : BOOLEAN, max_makespan : 0..MaxMakespanArg,
            greedy_multiplier : Multipliers,
            solver_time_limit : {DefaultTimeLimit},
            use_scipy_solver : {FALSE}, use_nl_solver : {FALSE},
            verbose : {FALSE}] :
        /\ ~a.max_makespan_given => a.max_makespan = 0
        /\ a.max_makespan_given => a.greedy_multiplier = DefaultMultiplier}

\* the solvers before any call: the hybrid sampler's min_time_limit for the
\* model, no call made, no warning issued
Backend(min_time_limit) ==
    [min_time_limit |-> min_time_limit, calls |-> <<>>, warnings |-> <<>>]

InitModel ==
    /\ jobs = Jobs
    /\ resources = Resources
    /\ \E route_a \in RoutesA, route_b \in RoutesB :
          job_tasks = [job \in Jobs |-> IF job = "a" THEN route_a ELSE route_b]
    /\ processing_times = NotLoaded
    /\ last = Call("JobShopData", "ok", <<>>, <<>>)
    /\ pc = "start"
    /\ args \in Arguments
    /\ model = <<>>
    /\ estimates = <<>>
    /\ backend = Backend(MinTimeLimit)
    /\ app = <<>>

---------------------------------------------------------------------------
(* utils/greedy.py, GreedyJobShop.solve: each run repeatedly picks, at     *)
(* random, a job that is not finished and starts its next operation as     *)
(* soon as the job and the operation's resource are both free.             *)

Later(a, b) == IF a >= b THEN a ELSE b

RECURSIVE GreedyRuns(_, _, _, _)
\* the makespans (the largest finish time) the rest of a run can end with
GreedyRuns(cursor, job_free, resource_free, latest) ==
    LET unfinished == {job \in DOMAIN job_tasks : cursor[job] <= Len(job_tasks[job])}
    IN  IF unfinished = {} THEN {latest}
        ELSE UNION {
            LET task == job_tasks[job][cursor[job]]
                start == Later(job_free[job], resource_free[task.resource])
                finish == start + task.duration
            IN  GreedyRuns([cursor EXCEPT ![job] = @ + 1],
                           [job_free EXCEPT ![job] = finish],
                           [resource_free EXCEPT ![task.resource] = finish],
                           Later(latest, finish))
            : job \in unfinished}

\* max(v[1] for v in task_assignments.values()) of one run; no value when
\* the instance has no task (max of an empty list raises ValueError)
GreedyMakespans ==
    IF get_tasks = <<>> THEN {}
    ELSE GreedyRuns([job \in DOMAIN job_tasks |-> 1],
                    [job \in DOMAIN job_tasks |-> 0],
                    [resource \in resources |-> 0], 0)

\* generate_greedy_makespan: min(solutions) of the runs' makespans
generate_greedy_makespan(solutions) ==
    Min({solutions[i] : i \in 1..Len(solutions)})

---------------------------------------------------------------------------
(* dimod: variables, linear expressions, the CQM *)

\* the characters of the names, for labels built with str.format
Chars == [a |-> <<"a">>, b |-> <<"b">>,
          r1 |-> <<"r", "1">>, r2 |-> <<"r", "2">>, r3 |-> <<"r", "3">>,
          a_b |-> <<"a", "_", "b">>, r_1 |-> <<"r", "_", "1">>,
          x1 |-> <<"x", "1">>, y1 |-> <<"y", "1">>, m |-> <<"m">>]

\* "x{}_{}".format(job, resource)
XLabel(job, resource) == <<"x">> \o Chars[job] \o <<"_">> \o Chars[resource]
\* "y{}_{}_{}".format(j, k, i)
YLabel(j, k, i) ==
    <<"y">> \o Chars[j] \o <<"_">> \o Chars[k] \o <<"_">> \o Chars[i]
MakespanLabel == <<"m", "a", "k", "e", "s", "p", "a", "n">>

Variable(label, vartype, lower_bound, upper_bound) ==
    [label |-> label, vartype |-> vartype,
     lower_bound |-> lower_bound, upper_bound |-> upper_bound]

\* dimod.Integer(label, lower_bound, upper_bound): raises ValueError when no
\* integer lies between the bounds
Integer(label, lower_bound, upper_bound) ==
    IF lower_bound > NumFloor(upper_bound) THEN Ret("ValueError", <<>>)
    ELSE Ret("ok", <<Variable(label, "INTEGER", lower_bound, upper_bound)>>)

\* dimod.Binary(label)
Binary(label) == Variable(label, "BINARY", 0, Num(1))

\* a linear expression: terms <<variable, coefficient>> and an offset
Linear(terms, offset) == [terms |-> terms, offset |-> offset]

\* ConstrainedQuadraticModel()
EmptyCqm == [variables |-> <<>>, constraints |-> <<>>, objective |-> <<>>]

VariablesOf(expression) ==
    [label \in {expression.terms[n][1].label : n \in 1..Len(expression.terms)} |->
        (CHOOSE term \in {expression.terms[n] : n \in 1..Len(expression.terms)} :
            term[1].label = label)[1]]

\* cqm.add_constraint(expression >= rhs, label=label)
add_constraint(cqm, expression, rhs, label) ==
    [cqm EXCEPT
        !.variables = VariablesOf(expression) @@ @,
        !.constraints = DictSet(@, label, [lhs |-> expression, rhs |-> rhs])]

RECURSIVE Evaluate(_, _, _)
\* the value of terms[n..] plus offset under a sample
Evaluate(expression, sample, n) ==
    IF n > Len(expression.terms) THEN expression.offset
    ELSE NumAdd(NumMulInt(expression.terms[n][2], sample[expression.terms[n][1].label]),
                Evaluate(expression, sample, n + 1))

\* whether the sample satisfies lhs >= rhs
Satisfies(sample, constraint) ==
    NumLeq(Num(constraint.rhs), Evaluate(constraint.lhs, sample, 1))

RECURSIVE SamplesOver(_, _)
\* every assignment of the given variables within their bounds
SamplesOver(variables, labels) ==
    IF labels = {} THEN {<<>>}
    ELSE LET label == CHOOSE l \in labels : TRUE
             v == variables[label]
         IN  {(label :> value) @@ rest :
                value \in v.lower_bound .. NumFloor(v.upper_bound),
                rest \in SamplesOver(variables, labels \ {label})}

Samples(cqm) == SamplesOver(cqm.variables, DOMAIN cqm.variables)

---------------------------------------------------------------------------
(* class JobShopSchedulingModel *)

NewModel(max_makespan, solutions) ==
    [max_makespan |-> max_makespan,
     cqm |-> <<>>, nl_model |-> <<>>, _x |-> <<>>, _y |-> <<>>, _makespan_var |-> <<>>,
     _best_sample_cqm |-> <<>>, solution |-> <<>>, makespan |-> 0,
     \* the makespans of the greedy runs made for max_makespan
     solutions |-> solutions]

Raise(method, exception) ==
    /\ pc' = "raised"
    /\ last' = Call(method, exception, <<>>, <<>>)

Return(method, next_pc) ==
    /\ pc' = next_pc
    /\ last' = Call(method, "ok", <<>>, <<>>)

\* __init__: max_makespan or generate_greedy_makespan(model_data) * greedy_multiplier
Construct ==
    /\ UNCHANGED <<data_vars, app, args, backend>>
    /\ IF args.max_makespan_given /\ args.max_makespan # 0
       THEN /\ model' = NewModel(Num(args.max_makespan), <<>>)
            /\ estimates' = Append(estimates, Num(args.max_makespan))
            /\ Return("JobShopSchedulingModel", "constructed")
       ELSE IF GreedyMakespans = {}
       THEN /\ UNCHANGED <<model, estimates>>
            /\ Raise("JobShopSchedulingModel", "ValueError")
       ELSE \E solutions \in [1..NumSamples -> GreedyMakespans] :
            LET bound == NumMulInt(args.greedy_multiplier,
                                   generate_greedy_makespan(solutions))
            IN  /\ model' = NewModel(bound, solutions)
                /\ estimates' = Append(estimates, bound)
                /\ Return("JobShopSchedulingModel", "constructed")

JobShopSchedulingModel_init ==
    /\ pc = "start"
    /\ Construct

\* the pairs of "for job in jobs: for resource in resources", the sets
\* iterated in the given orders
NestedPairs(job_order, resource_order) ==
    [n \in 1..(Len(job_order) * Len(resource_order)) |->
        <<job_order[((n - 1) \div Len(resource_order)) + 1],
          resource_order[((n - 1) % Len(resource_order)) + 1]>>]

RECURSIVE DefineX(_, _, _)
\* the loop of define_cqm_variables over the pairs left: the variables
\* defined and how the loop ended; bounds[task] is what
\* get_task_time_bounds(task, self.max_makespan) returns
DefineX(pairs, x, bounds) ==
    IF pairs = <<>> THEN Ret("ok", x)
    ELSE LET job == Head(pairs)[1]
             resource == Head(pairs)[2]
             task == get_resource_job_tasks(resource, job)
         IN  IF task.outcome # "ok" THEN Ret(task.outcome, x)
             ELSE LET lb_ub == bounds[task.value[1]]
                      variable == Integer(XLabel(job, resource),
                                          lb_ub.value[1], lb_ub.value[2])
                  IN  IF lb_ub.outcome # "ok" THEN Ret(lb_ub.outcome, x)
                      ELSE IF variable.outcome # "ok" THEN Ret(variable.outcome, x)
                      ELSE DefineX(Tail(pairs),
                                   DictSet(x, <<job, resource>>, variable.value[1]),
                                   bounds)

\* the Task objects of the instance
StoredTasks == {get_tasks[n] : n \in 1..Len(get_tasks)}

\* if verbose: print_cqm_stats(model.cqm), the first statement after the
\* construction.  model.cqm is still the None of __init__ (define_cqm_model
\* runs later), and print_cqm_stats raises ValueError for an argument that
\* is no ConstrainedQuadraticModel.  The steps after it are taken when
\* verbose is False.
print_cqm_stats ==
    /\ pc = "constructed"
    /\ args.verbose
    /\ UNCHANGED <<data_vars, app, args, estimates, model, backend>>
    /\ IF model.cqm = <<>>
       THEN Raise("print_cqm_stats", "ValueError")
       ELSE Return("print_cqm_stats", "constructed")

\* define_cqm_model, then define_cqm_variables; bounds[task] is what
\* get_task_time_bounds(task, self.max_makespan) returns
DefineVariables(bounds) ==
    /\ pc = "constructed"
    /\ ~args.verbose
    /\ ~args.use_nl_solver
    /\ UNCHANGED <<data_vars, app, args, estimates, backend>>
    /\ LET makespan_var == Integer(MakespanLabel, 0, model.max_makespan)
       IN  IF makespan_var.outcome # "ok"
           THEN /\ model' = [model EXCEPT !.cqm = EmptyCqm]
                /\ Raise("define_cqm_variables", makespan_var.outcome)
           ELSE \E job_order \in Orders(jobs), resource_order \in Orders(resources) :
                LET x == DefineX(NestedPairs(job_order, resource_order), <<>>, bounds)
                    y == [key \in jobs \X jobs \X resources |->
                            Binary(YLabel(key[1], key[2], key[3]))]
                IN  IF x.outcome # "ok"
                    THEN /\ model' = [model EXCEPT !.cqm = EmptyCqm,
                                         !._makespan_var = makespan_var.value[1],
                                         !._x = x.value]
                         /\ Raise("define_cqm_variables", x.outcome)
                    ELSE /\ model' = [model EXCEPT !.cqm = EmptyCqm,
                                         !._makespan_var = makespan_var.value[1],
                                         !._x = x.value,
                                         !._y = y]
                         /\ Return("define_cqm_variables", "variables")

\* define_cqm_variables whose upper bounds leave out the
\* operation's own duration
define_cqm_variables_latest_finish ==
    DefineVariables([task \in StoredTasks |->
        get_task_time_bounds_without_own(task, model.max_makespan)])

define_cqm_variables ==
    DefineVariables([task \in StoredTasks |->
        get_task_time_bounds(task, model.max_makespan)])

\* the consecutive pairs of a job: zip(tasks[:-1], tasks[1:])
ConsecutivePairs ==
    UNION {{<<job, n>> : n \in 1..(Len(job_tasks[job]) - 1)} : job \in jobs}

PrecedenceLabel(job, machine) == <<"pj", job, "_m", machine>>

\* the precedence constraint with curr_task.duration on the right
PrecedenceConstraint_curr_duration(pair) ==
    LET prev_task == job_tasks[pair[1]][pair[2]]
        curr_task == job_tasks[pair[1]][pair[2] + 1]
    IN  [lhs |-> Linear(<<<<model._x[<<pair[1], curr_task.resource>>], Num(1)>>,
                          <<model._x[<<pair[1], prev_task.resource>>], Num(-1)>>>>,
                        Num(0)),
         rhs |-> curr_task.duration,
         label |-> <<"pj", pair[1], "_m", curr_task.resource>>]

\* x[job, curr] - x[job, prev] >= prev.duration
PrecedenceConstraint(pair) ==
    LET prev_task == job_tasks[pair[1]][pair[2]]
        curr_task == job_tasks[pair[1]][pair[2] + 1]
    IN  [lhs |-> Linear(<<<<model._x[<<pair[1], curr_task.resource>>], Num(1)>>,
                          <<model._x[<<pair[1], prev_task.resource>>], Num(-1)>>>>,
                        Num(0)),
         rhs |-> prev_task.duration,
         label |-> PrecedenceLabel(pair[1], curr_task.resource)]

RECURSIVE AddAll(_, _)
\* cqm.add_constraint for each constraint of the set
AddAll(cqm, constraints) ==
    IF constraints = {} THEN cqm
    ELSE LET c == CHOOSE x \in constraints : TRUE
         IN  AddAll(add_constraint(cqm, c.lhs, c.rhs, c.label), constraints \ {c})

\* two constraints of the set carry one label: the second add_constraint
\* raises ValueError
LabelClash(constraints) ==
    \E c, d \in constraints : c # d /\ c.label = d.label

add_precedence_constraints ==
    /\ pc = "variables"
    /\ UNCHANGED <<data_vars, app, args, estimates, backend>>
    /\ LET constraints == {PrecedenceConstraint(pair) : pair \in ConsecutivePairs}
       IN  IF LabelClash(constraints)
           THEN /\ UNCHANGED model
                /\ Raise("add_precedence_constraints", "ValueError")
           ELSE /\ model' = [model EXCEPT !.cqm = AddAll(@, constraints)]
                /\ Return("add_precedence_constraints", "precedence")

\* the (j, k, i) of "for j in jobs: for k in jobs: if j < k: for i in resources"
DisjunctiveTriples ==
    {t \in jobs \X jobs \X resources : StrLess(t[1], t[2])}

Disjunction1Label(j, k, i) == <<"disjunction1", j, "_j", k, "_m", i>>
Disjunction2Label(j, k, i) == <<"disjunction2", j, "_j", k, "_m", i>>

\* the first disjunction without task_k.duration
Disjunction1_no_duration(j, k, i, V) ==
    [lhs |-> Linear(<<<<model._x[<<j, i>>], Num(1)>>,
                      <<model._x[<<k, i>>], Num(-1)>>,
                      <<model._y[<<j, k, i>>], V>>>>,
                    Num(0)),
     rhs |-> 0,
     label |-> Disjunction1Label(j, k, i)]

\* x[j,i] - x[k,i] - task_k.duration + y[j,k,i] * V >= 0
Disjunction1(j, k, i, V) ==
    LET task_k == get_resource_job_tasks(i, k).value[1]
    IN  [lhs |-> Linear(<<<<model._x[<<j, i>>], Num(1)>>,
                          <<model._x[<<k, i>>], Num(-1)>>,
                          <<model._y[<<j, k, i>>], V>>>>,
                        Num(0 - task_k.duration)),
         rhs |-> 0,
         label |-> Disjunction1Label(j, k, i)]

\* the second disjunction with y written where the code writes (1 - y)
Disjunction2_same_sign(j, k, i, V) ==
    LET task_j == get_resource_job_tasks(i, j).value[1]
    IN  [lhs |-> Linear(<<<<model._x[<<k, i>>], Num(1)>>,
                          <<model._x[<<j, i>>], Num(-1)>>,
                          <<model._y[<<j, k, i>>], V>>>>,
                        Num(0 - task_j.duration)),
         rhs |-> 0,
         label |-> Disjunction2Label(j, k, i)]

\* x[k,i] - x[j,i] - task_j.duration + (1 - y[j,k,i]) * V >= 0
Disjunction2(j, k, i, V) ==
    LET task_j == get_resource_job_tasks(i, j).value[1]
    IN  [lhs |-> Linear(<<<<model._x[<<k, i>>], Num(1)>>,
                          <<model._x[<<j, i>>], Num(-1)>>,
                          <<model._y[<<j, k, i>>], NumNeg(V)>>>>,
                        NumAdd(Num(0 - task_j.duration), V)),
         rhs |-> 0,
         label |-> Disjunction2Label(j, k, i)]

\* add_disjunctive_constraints, V = self.max_makespan.  A lookup that fails
\* here has failed in define_cqm_variables before, which looks up every
\* (job, resource).
add_disjunctive_constraints ==
    /\ pc = "precedence"
    /\ UNCHANGED <<data_vars, app, args, estimates, backend>>
    /\ LET V == model.max_makespan
           failing == {t \in DisjunctiveTriples :
                          \/ get_resource_job_tasks(t[3], t[1]).outcome # "ok"
                          \/ get_resource_job_tasks(t[3], t[2]).outcome # "ok"}
           constraints ==
               {Disjunction1(t[1], t[2], t[3], V) : t \in DisjunctiveTriples}
               \cup {Disjunction2(t[1], t[2], t[3], V) : t \in DisjunctiveTriples}
       IN  IF failing # {}
           THEN /\ UNCHANGED model
                /\ Raise("add_disjunctive_constraints", "IndexError")
           ELSE /\ model' = [model EXCEPT !.cqm = AddAll(@, constraints)]
                /\ Return("add_disjunctive_constraints", "disjunctive")

MakespanConstraintLabel(job) == <<"makespan_ctr", job>>

\* the makespan constraint without the last operation's duration
MakespanConstraint_start_only(job) ==
    LET last_job_task == job_tasks[job][Len(job_tasks[job])]
    IN  [lhs |-> Linear(<<<<model._makespan_var, Num(1)>>,
                          <<model._x[<<job, last_job_task.resource>>], Num(-1)>>>>,
                        Num(0)),
         rhs |-> 0,
         label |-> MakespanConstraintLabel(job)]

\* makespan - x[job, last_machine] >= last_job_task.duration
MakespanConstraint(job) ==
    LET last_job_task == job_tasks[job][Len(job_tasks[job])]
    IN  [lhs |-> Linear(<<<<model._makespan_var, Num(1)>>,
                          <<model._x[<<job, last_job_task.resource>>], Num(-1)>>>>,
                        Num(0)),
         rhs |-> last_job_task.duration,
         label |-> MakespanConstraintLabel(job)]

add_makespan_constraint ==
    /\ pc = "disjunctive"
    /\ UNCHANGED <<data_vars, app, args, estimates, backend>>
    /\ IF \E job \in jobs : job_tasks[job] = <<>>
       THEN /\ UNCHANGED model
            /\ Raise("add_makespan_constraint", "IndexError")
       ELSE /\ model' = [model EXCEPT !.cqm =
                            AddAll(@, {MakespanConstraint(job) : job \in jobs})]
            /\ Return("add_makespan_constraint", "makespan")

\* cqm.set_objective(self._makespan_var)
define_cqm_objective ==
    /\ pc = "makespan"
    /\ UNCHANGED <<data_vars, app, args, estimates, backend>>
    /\ LET objective == Linear(<<<<model._makespan_var, Num(1)>>>>, Num(0))
       IN  model' = [model EXCEPT !.cqm.objective = objective,
                                  !.cqm.variables = VariablesOf(objective) @@ @]
    /\ Return("define_cqm_objective", "objective")

\* the sample satisfies every constraint of the CQM (is_feasible)
IsFeasible(cqm, sample) ==
    \A label \in DOMAIN cqm.constraints : Satisfies(sample, cqm.constraints[label])

\* call_cqm_solver: the sampler is handed max(min_time_limit, time_limit)
\* and returns samples within the variables' bounds; the best feasible one
\* is kept, or, when none is feasible, a warning is issued and the first of
\* the raw sample set is kept
call_cqm_solver ==
    /\ pc = "objective"
    /\ ~args.use_scipy_solver
    /\ UNCHANGED <<data_vars, app, args, estimates>>
    /\ \E sample \in Samples(model.cqm) :
          LET time_limit == Later(backend.min_time_limit, args.solver_time_limit)
          IN  /\ model' = [model EXCEPT
                    !._best_sample_cqm = sample,
                    !.solution = [key \in jobs \X resources |->
                        LET task == get_resource_job_tasks(key[2], key[1]).value[1]
                        IN  <<task, sample[model._x[key].label], task.duration>>],
                    !.makespan = sample[MakespanLabel]]
              /\ backend' = [backend EXCEPT
                    !.calls = Append(@, [solver |-> "LeapHybridCQMSampler",
                                         time_limit |-> time_limit]),
                    !.warnings = IF IsFeasible(model.cqm, sample) THEN @
                                 ELSE Append(@, "CQM did not find feasible solution")]
    /\ Return("call_cqm_solver", "solved")

NextModel ==
    \/ JobShopSchedulingModel_init
    \/ define_cqm_variables
    \/ add_precedence_constraints
    \/ add_disjunctive_constraints
    \/ add_makespan_constraint
    \/ define_cqm_objective
    \/ call_cqm_solver

SpecModel == InitModel /\ [][NextModel]_vars

\* a second JobShopSchedulingModel is built from the same job data with the
\* same arguments (the application runs run_shop_scheduler once per solver)
construct_again ==
    /\ pc = "constructed"
    /\ Len(estimates) = 1
    /\ Construct

NextEstimate ==
    \/ JobShopSchedulingModel_init
    \/ construct_again

SpecEstimate == InitModel /\ [][NextEstimate]_vars

---------------------------------------------------------------------------
(* The other strategies of run_shop_scheduler, the data frame it returns   *)
(* and the instances load_from_file builds.                                *)

RECURSIVE Split(_, _, _)
\* str.split("_"): the parts of chars between underscores; part is the part
\* being read and parts those read so far
Split(chars, part, parts) ==
    IF chars = <<>> THEN Append(parts, part)
    ELSE IF Head(chars) = "_" THEN Split(Tail(chars), <<>>, Append(parts, part))
    ELSE Split(Tail(chars), Append(part, Head(chars)), parts)

\* the name spelt by the characters
NameOf(chars) == CHOOSE name \in DOMAIN Chars : Chars[name] = chars

\* utils/scipy_solver.py, SciPyCQMSolver.sample_cqm: an empty sample set
\* when HiGHS found no feasible assignment within the time limit, else a
\* sample set whose first sample is a feasible assignment
SciPyCQMSolver_sample_cqm(cqm) ==
    {<<>>} \cup {<<sample>> : sample \in {x \in Samples(cqm) : IsFeasible(cqm, x)}}

\* the loop of call_scipy_solver over best_sol.items(): the variables whose
\* label starts with "x", the label without the "x" split at "_"
ScipyParts(best_sol) ==
    [var \in {v \in DOMAIN best_sol : Head(v) = "x"} |-> Split(Tail(var), <<>>, <<>>)]

call_scipy_solver ==
    /\ pc = "objective"
    /\ args.use_scipy_solver
    /\ UNCHANGED <<data_vars, app, args, estimates>>
    /\ \E sol \in SciPyCQMSolver_sample_cqm(model.cqm) :
          /\ backend' = [backend EXCEPT
                !.calls = Append(@, [solver |-> "SciPyCQMSolver",
                                     time_limit |-> args.solver_time_limit]),
                !.warnings = IF Len(sol) = 0
                             THEN Append(@, "HiGHS did not find feasible solution")
                             ELSE @]
          /\ IF Len(sol) = 0
             THEN /\ model' = [model EXCEPT !.solution = <<>>]
                  /\ Return("call_scipy_solver", "solved")
             ELSE LET best_sol == sol[1]
                      parts == ScipyParts(best_sol)
                  IN  IF \E var \in DOMAIN parts : Len(parts[var]) # 2
                      THEN \* job, machine = var[1:].split("_") cannot unpack
                           /\ model' = [model EXCEPT !.solution = <<>>]
                           /\ Raise("call_scipy_solver", "ValueError")
                      ELSE LET keys == {<<NameOf(parts[var][1]), NameOf(parts[var][2])>> :
                                           var \in DOMAIN parts}
                           IN  /\ model' = [model EXCEPT !.solution =
                                     [key \in keys |->
                                        LET task == get_resource_job_tasks(key[2], key[1]).value[1]
                                        IN  <<task, best_sol[XLabel(key[1], key[2])],
                                              task.duration>>]]
                               /\ Return("call_scipy_solver", "solved")

\* dwave.optimization.generators.flow_shop_scheduling(processing_times):
\* raises ValueError for processing times that are no matrix
create_nl_model ==
    /\ pc = "constructed"
    /\ ~args.verbose
    /\ args.use_nl_solver
    /\ UNCHANGED <<data_vars, app, args, estimates, backend>>
    /\ IF ~processing_times.loaded
       THEN /\ UNCHANGED model
            /\ Raise("create_nl_model", "ValueError")
       ELSE /\ model' = [model EXCEPT !.nl_model =
                            [processing_times |-> processing_times.times]]
            /\ Return("create_nl_model", "nl_model")

\* call_nl_solver: HSSNLSolver().solve(self.nl_model, time_limit), then
\* self._calculate_end_times(self.nl_model), a call with an argument of a
\* method that takes none: TypeError
call_nl_solver ==
    /\ pc = "nl_model"
    /\ UNCHANGED <<data_vars, app, args, estimates, model>>
    /\ backend' = [backend EXCEPT
          !.calls = Append(@, [solver |-> "HSSNLSolver",
                               time_limit |-> args.solver_time_limit])]
    /\ Raise("call_nl_solver", "TypeError")

\* solution_as_dataframe, whose data frame run_shop_scheduler returns: one
\* row [Job, Task, Start, Finish, Resource] per item of self.solution (the
\* rows in the order of the dict, here an order of the keys)
DataFrame(solution) ==
    LET keys == SetToSeq(DOMAIN solution)
    IN  [n \in 1..Len(keys) |->
            [Job |-> keys[n][1], Task |-> solution[keys[n]][1],
             Start |-> solution[keys[n]][2],
             Finish |-> solution[keys[n]][2] + solution[keys[n]][3],
             Resource |-> keys[n][2]]]

solution_as_dataframe ==
    /\ pc = "solved"
    /\ UNCHANGED <<data_vars, app, args, estimates, model, backend>>
    /\ pc' = "returned"
    /\ last' = Call("run_shop_scheduler", "ok", <<>>, <<DataFrame(model.solution)>>)

\* the names load_from_file gives the machines of the matrix
ResourceNames == <<"r1", "r2">>
\* the names of the jobs of the matrix, by column
JobNames == <<"a", "b">>

\* load_from_file: processing_times[machine][job]; one add_task per machine
\* and job, machine by machine, so that every job visits the machines in
\* the order of the matrix
LoadedTasks(times) ==
    [job \in Jobs |->
        RouteOf(job, ResourceNames,
                [machine \in 1..Len(times) |-> times[machine][JobRank[job]]])]

\* the processing-time matrices of the instances: machine by job
Matrices(durations) == [1..Len(ResourceNames) -> [1..Len(JobNames) -> durations]]

\* what the caller of run_shop_scheduler passes in SpecStrategies
MaxStrategyBound == 2
TimeLimits == {1, DefaultTimeLimit}
StrategyArguments ==
    {a \in [max_makespan_given : BOOLEAN, max_makespan : 0..MaxStrategyBound,
            greedy_multiplier : {DefaultMultiplier},
            solver_time_limit : TimeLimits,
            use_scipy_solver : BOOLEAN, use_nl_solver : BOOLEAN,
            verbose : {FALSE}] :
        ~a.max_makespan_given => a.max_makespan = 0}

\* job b's route after remove_task of its operation on r2
WithoutLast(route) == SubSeq(route, 1, Len(route) - 1)
\* job b's route after remove_task of its operation on r1 and add_task of
\* it at the end
Reversed(route) == <<route[2], route[1]>>

\* The instances of SpecStrategies:
\*  - a file loaded by load_from_file;
\*  - a loaded file whose job b was edited with remove_task / add_task, so
\*    that it skips r2 or visits r2 before r1 (processing_times is kept);
\*  - an instance without operations built by JobShopData(jobs, resources).
\* The greedy bound of an instance with operations is left to SpecModel.
InitStrategies ==
    /\ \/ \E times \in Matrices(Durations) :
             /\ jobs = Jobs
             /\ resources = Resources
             /\ processing_times = [loaded |-> TRUE, times |-> times]
             /\ \E edit \in {"none", "without_last", "reversed"} :
                   job_tasks = [LoadedTasks(times) EXCEPT !["b"] =
                                   CASE edit = "none" -> @
                                     [] edit = "without_last" -> WithoutLast(@)
                                     [] edit = "reversed" -> Reversed(@)]
             /\ args \in {a \in StrategyArguments :
                             a.max_makespan_given /\ a.max_makespan > 0}
       \/ /\ jobs \in SUBSET Jobs
          /\ resources \in SUBSET Resources
          /\ processing_times = NotLoaded
          /\ job_tasks = [job \in jobs |-> <<>>]
          /\ args \in StrategyArguments
    /\ last = Call("JobShopData", "ok", <<>>, <<>>)
    /\ pc = "start"
    /\ model = <<>>
    /\ estimates = <<>>
    /\ backend = Backend(MinTimeLimit)
    /\ app = <<>>

NextStrategies ==
    \/ JobShopSchedulingModel_init
    \/ create_nl_model
    \/ call_nl_solver
    \/ define_cqm_variables
    \/ add_precedence_constraints
    \/ add_disjunctive_constraints
    \/ add_makespan_constraint
    \/ define_cqm_objective
    \/ call_scipy_solver
    \/ call_cqm_solver
    \/ solution_as_dataframe

SpecStrategies == InitStrategies /\ [][NextStrategies]_vars

---------------------------------------------------------------------------
(* _calculate_end_times, called on a model whose NL model holds a solved   *)
(* job order.  Lists are 1-based here: machine_m and job_j run from 1, and *)
(* order holds job numbers from 1.                                         *)

\* the largest processing time of the matrices of SpecEndTimes
MaxProcessingTime == 2
ProcessingTimes == 0..MaxProcessingTime

\* the shapes of the matrices: one or two machines, one to three jobs
MachineCounts == {1, 2}
JobCounts == {1, 2, 3}

\* str(job) for the columns of the matrix
ColumnNames == <<"0", "1", "2">>

\* end_job_j without the max: the finish on the previous machine only
EndJob_previous_machine_only(machine_m, job_j, duration, end_times, machine_m_times) ==
    IF machine_m = 1
    THEN IF job_j = 1
         THEN duration
         ELSE duration + machine_m_times[Len(machine_m_times)]
    ELSE end_times[machine_m - 1][job_j] + duration

\* end_job_j, the value appended to machine_m_times, in the four branches
\* of the loops (duration is times[machine_m, :][order[job_j]])
EndJob(machine_m, job_j, duration, end_times, machine_m_times) ==
    IF machine_m = 1
    THEN IF job_j = 1
         THEN duration
         ELSE duration + machine_m_times[Len(machine_m_times)]
    ELSE IF job_j = 1
         THEN end_times[machine_m - 1][job_j] + duration
         ELSE Later(end_times[machine_m - 1][job_j],
                    machine_m_times[Len(machine_m_times)]) + duration

\* for job_j in range(num_jobs): machine_m_times after job_j appends
RECURSIVE MachineTimes(_, _, _, _, _)
MachineTimes(times, order, machine_m, end_times, job_j) ==
    IF job_j = 0
    THEN <<>>
    ELSE LET machine_m_times == MachineTimes(times, order, machine_m, end_times, job_j - 1)
         IN  Append(machine_m_times,
                    EndJob(machine_m, job_j, times[machine_m][order[job_j]],
                           end_times, machine_m_times))

\* for machine_m in range(num_machines): end_times after machine_m appends
RECURSIVE EndTimes(_, _, _)
EndTimes(times, order, machine_m) ==
    IF machine_m = 0
    THEN <<>>
    ELSE LET end_times == EndTimes(times, order, machine_m - 1)
         IN  Append(end_times,
                    MachineTimes(times, order, machine_m, end_times, Len(times[1])))

\* _calculate_end_times(self): times = self.model_data.processing_times,
\* order = the state of the NL model's decision
calculate_end_times ==
    /\ pc = "nl_solved"
    /\ UNCHANGED <<data_vars, app, args, estimates, model, backend>>
    /\ pc' = "end_times"
    /\ last' = Call("_calculate_end_times", "ok", <<>>,
                    <<EndTimes(processing_times.times, model.nl_model.order,
                               Len(processing_times.times))>>)

\* load_from_file on a matrix of any shape: one Task per cell, appended to
\* the job of its column, machine by machine
LoadedColumns(times) ==
    [job \in {ColumnNames[n] : n \in 1..Len(times[1])} |->
        [machine \in 1..Len(times) |->
            LET n == CHOOSE n \in 1..Len(times[1]) : ColumnNames[n] = job
            IN  Task(n * 10 + machine, job, ResourceNames[machine], times[machine][n])]]

\* the states in which _calculate_end_times is called: an instance loaded
\* from a file, its NL model solved to a permutation of the jobs
InitEndTimes ==
    /\ \E num_machines \in MachineCounts, num_jobs \in JobCounts :
          \E times \in [1..num_machines -> [1..num_jobs -> ProcessingTimes]],
             order \in Orders(1..num_jobs) :
             /\ jobs = {ColumnNames[n] : n \in 1..num_jobs}
             /\ resources = {ResourceNames[m] : m \in 1..num_machines}
             /\ job_tasks = LoadedColumns(times)
             /\ processing_times = [loaded |-> TRUE, times |-> times]
             /\ model = [NewModel(Num(1), <<>>) EXCEPT !.nl_model =
                            [processing_times |-> times, order |-> order]]
    /\ last = Call("HSSNLSolver.solve", "ok", <<>>, <<>>)
    /\ pc = "nl_solved"
    /\ args = [max_makespan_given |-> TRUE, max_makespan |-> 1,
               greedy_multiplier |-> DefaultMultiplier,
               solver_time_limit |-> DefaultTimeLimit,
               use_scipy_solver |-> FALSE, use_nl_solver |-> TRUE,
               verbose |-> FALSE]
    /\ estimates = <<Num(1)>>
    /\ backend = [Backend(MinTimeLimit) EXCEPT
                     !.calls = <<[solver |-> "HSSNLSolver",
                                  time_limit |-> DefaultTimeLimit]>>]
    /\ app = <<>>

NextEndTimes == calculate_end_times

SpecEndTimes == InitEndTimes /\ [][NextEndTimes]_vars

---------------------------------------------------------------------------
(* src/src/generate_charts.py, get_minimum_task_times: the rows of the     *)
(* "jobs to be scheduled" chart, every job started at time 0.              *)

\* the rows of one job: start_time runs from 0 along the job's tasks
RECURSIVE JobRows(_, _)
JobRows(tasks, n) ==
    IF n = 0
    THEN <<>>
    ELSE LET before == JobRows(tasks, n - 1)
             start_time == IF n = 1 THEN 0 ELSE before[n - 1].Finish
         IN  Append(before,
                    [Job |-> tasks[n].job, Start |-> start_time,
                     Finish |-> start_time + tasks[n].duration,
                     Operation |-> tasks[n].resource, Conflicts |-> "No"])

\* for tasks in job_tasks.values(): the rows of the jobs, in the dict's order
RECURSIVE TaskData(_)
TaskData(job_order) ==
    IF job_order = <<>>
    THEN <<>>
    ELSE JobRows(job_tasks[Head(job_order)], Len(job_tasks[Head(job_order)]))
            \o TaskData(Tail(job_order))

\* Python's order of two (Start, Finish) tuples
TupleLeq(p, q) == p[1] < q[1] \/ (p[1] = q[1] /\ p[2] <= q[2])

\* tasks_overlap: the two intervals sorted, then interval_b[0] < interval_a[1]
tasks_overlap(task_i, task_j) ==
    LET p == <<task_i.Start, task_i.Finish>>
        q == <<task_j.Start, task_j.Finish>>
        interval_a == IF TupleLeq(p, q) THEN p ELSE q
        interval_b == IF TupleLeq(p, q) THEN q ELSE p
    IN  interval_b[1] < interval_a[2]

\* the loop over the pairs i < j: both rows of a pair on the same resource
\* that overlaps are set to "Yes"
WithConflicts(task_data) ==
    [n \in 1..Len(task_data) |->
        [task_data[n] EXCEPT !.Conflicts =
            IF \E i, j \in 1..Len(task_data) :
                  /\ i < j
                  /\ n \in {i, j}
                  /\ task_data[i].Operation = task_data[j].Operation
                  /\ tasks_overlap(task_data[i], task_data[j])
            THEN "Yes"
            ELSE "No"]]

\* get_minimum_task_times(flow_shop_data); pd.DataFrame([]) has no column
\* Finish, so df.Finish raises AttributeError when there is no row
get_minimum_task_times ==
    /\ pc = "start"
    /\ UNCHANGED <<data_vars, app, args, estimates, model, backend>>
    /\ \E job_order \in Orders(jobs) :
          LET task_data == TaskData(job_order)
          IN  IF task_data = <<>>
              THEN Raise("get_minimum_task_times", "AttributeError")
              ELSE /\ pc' = "returned"
                   /\ last' = Call("get_minimum_task_times", "ok", <<job_order>>,
                                   <<WithConflicts(task_data)>>)

\* The instances charted: a loaded file, a loaded file whose job b was
\* edited, or an instance without operations.
InitCharts ==
    /\ \/ \E times \in Matrices(ProcessingTimes) :
             /\ jobs = Jobs
             /\ resources = Resources
             /\ processing_times = [loaded |-> TRUE, times |-> times]
             /\ \E edit \in {"none", "without_last", "reversed"} :
                   job_tasks = [LoadedTasks(times) EXCEPT !["b"] =
                                   CASE edit = "none" -> @
                                     [] edit = "without_last" -> WithoutLast(@)
                                     [] edit = "reversed" -> Reversed(@)]
       \/ /\ jobs \in SUBSET Jobs
          /\ resources \in SUBSET Resources
          /\ processing_times = NotLoaded
          /\ job_tasks = [job \in jobs |-> <<>>]
    /\ last = Call("JobShopData", "ok", <<>>, <<>>)
    /\ pc = "start"
    /\ args = <<>>
    /\ model = <<>>
    /\ estimates = <<>>
    /\ backend = <<>>
    /\ app = <<>>

NextCharts == get_minimum_task_times

SpecCharts == InitCharts /\ [][NextCharts]_vars

---------------------------------------------------------------------------
(* The two-job scenario: job a = [(r1, 3), (r2, 2)], job b = [(r1, 2),     *)
(* (r2, 4)], solved with a max_makespan the caller passes.                 *)

\* the largest max_makespan passed in the scenario; the smallest is the
\* length of the shortest schedule the instance has
MaxScenarioBound == 9
ScenarioBounds == 8..MaxScenarioBound

InitScenario ==
    /\ jobs = Jobs
    /\ resources = Resources
    /\ job_tasks = [job \in Jobs |->
                       IF job = "a" THEN RouteOf("a", <<"r1", "r2">>, <<3, 2>>)
                       ELSE RouteOf("b", <<"r1", "r2">>, <<2, 4>>)]
    /\ last = Call("JobShopData", "ok", <<>>, <<>>)
    /\ pc = "start"
    /\ processing_times = NotLoaded
    /\ args \in [max_makespan_given : {TRUE},
                max_makespan : ScenarioBounds,
                greedy_multiplier : {DefaultMultiplier},
                solver_time_limit : {DefaultTimeLimit},
                use_scipy_solver : {FALSE}, use_nl_solver : {FALSE},
            verbose : {FALSE}]
    /\ model = <<>>
    /\ estimates = <<>>
    /\ backend = Backend(MinTimeLimit)
    /\ app = <<>>

SpecScenario == InitScenario /\ [][NextModel]_vars

---------------------------------------------------------------------------
(* Claims about the bound, checked under SpecModel and SpecEstimate *)

\* the constructor has returned a model
Constructed ==
    /\ pc \notin {"idle", "start"}
    /\ ~(pc = "raised" /\ last.op = "JobShopSchedulingModel")

\* C6 (as claimed): the makespan bound is the caller's max_makespan whenever
\* one is supplied (any value other than None, 0 included), and only for
\* None is it the minimum makespan of the greedy runs times
\* greedy_multiplier.
C6_SuppliedMakespanIsTheBound ==
    Constructed =>
        IF args.max_makespan_given
        THEN NumEq(model.max_makespan, Num(args.max_makespan))
        ELSE /\ Len(model.solutions) = NumSamples
             /\ \A n \in 1..NumSamples : model.solutions[n] \in GreedyMakespans
             /\ NumEq(model.max_makespan,
                      NumMulInt(args.greedy_multiplier,
                                Min({model.solutions[n] : n \in 1..NumSamples})))

\* C7 (as claimed): two runs of the bound estimation on the same instance
\* with the same sample count and multiplier return the same bound.
C7_SameBoundOnSecondRun ==
    Len(estimates) = 2 => NumEq(estimates[1], estimates[2])

---------------------------------------------------------------------------
(* Claims about the CQM, checked under SpecModel *)

\* define_cqm_variables has run, to its end or to an exception
VariablesTouched ==
    \/ pc \in {"variables", "precedence", "disjunctive", "makespan", "objective", "solved"}
    \/ pc = "raised" /\ last.op # "JobShopSchedulingModel"

VariablesDefined ==
    pc \in {"variables", "precedence", "disjunctive", "makespan", "objective", "solved"}

\* C8: define_cqm_variables gives every start variable x[job, resource] the
\* domain [earliest, latest] that get_task_time_bounds returns for the job's
\* operation on the resource with the model's makespan bound, and the
\* makespan variable the domain [0, bound]; when it returns there is a start
\* variable for every (job, resource).
C8_DomainsAreTheTimeBounds ==
    /\ VariablesTouched =>
          \A key \in DOMAIN model._x :
              LET task == get_resource_job_tasks(key[2], key[1])
                  bounds == get_task_time_bounds(task.value[1], model.max_makespan)
              IN  /\ task.outcome = "ok"
                  /\ bounds.outcome = "ok"
                  /\ model._x[key].vartype = "INTEGER"
                  /\ model._x[key].lower_bound = bounds.value[1]
                  /\ NumEq(model._x[key].upper_bound, bounds.value[2])
    /\ VariablesDefined =>
          /\ DOMAIN model._x = jobs \X resources
          /\ model._makespan_var.vartype = "INTEGER"
          /\ model._makespan_var.lower_bound = 0
          /\ NumEq(model._makespan_var.upper_bound, model.max_makespan)

\* the variables are defined and some operation that is not the first of its
\* job and takes time has its start variable
C8_Witness ==
    /\ pc = "variables"
    /\ \E key \in DOMAIN model._x :
          /\ model._x[key].lower_bound > 0
          /\ get_resource_job_tasks(key[2], key[1]).value[1].duration > 0

\* the triples (j, k, resource), j < k, of two jobs that both have an
\* operation on the resource
SharedTriples ==
    {t \in jobs \X jobs \X resources :
        /\ StrLess(t[1], t[2])
        /\ OperationsOn(t[3], t[1]) # {}
        /\ OperationsOn(t[3], t[2]) # {}}

DisjunctiveLabels ==
    {label \in DOMAIN model.cqm.constraints :
        label[1] \in {"disjunction1", "disjunction2"}}

\* C9 (as claimed): model building creates precedes binaries and disjunctive
\* constraints for exactly the triples (j, k, resource) with j < k in which
\* both jobs have an operation on the resource, two inequalities per triple,
\* and building completes for an instance in which some job does not visit
\* some resource.
C9_BinariesAndDisjunctionsPerSharedTriple ==
    /\ ~(/\ pc = "raised"
         /\ last.op \in {"define_cqm_variables", "add_disjunctive_constraints"}
         /\ last.outcome = "IndexError")
    /\ VariablesDefined => DOMAIN model._y = SharedTriples
    /\ pc \in {"disjunctive", "makespan", "objective", "solved"} =>
          DisjunctiveLabels =
              {Disjunction1Label(t[1], t[2], t[3]) : t \in SharedTriples}
              \cup {Disjunction2Label(t[1], t[2], t[3]) : t \in SharedTriples}

\* the solver's sample satisfies both inequalities emitted for the triple
BothInequalitiesHold(t) ==
    /\ Disjunction1Label(t[1], t[2], t[3]) \in DOMAIN model.cqm.constraints
    /\ Disjunction2Label(t[1], t[2], t[3]) \in DOMAIN model.cqm.constraints
    /\ Satisfies(model._best_sample_cqm,
                 model.cqm.constraints[Disjunction1Label(t[1], t[2], t[3])])
    /\ Satisfies(model._best_sample_cqm,
                 model.cqm.constraints[Disjunction2Label(t[1], t[2], t[3])])

StartOf(job, resource) == model._best_sample_cqm[XLabel(job, resource)]
DurationOf(job, resource) == get_resource_job_tasks(resource, job).value[1].duration
FinishOf(job, resource) == StartOf(job, resource) + DurationOf(job, resource)
Precedes(t) == model._best_sample_cqm[YLabel(t[1], t[2], t[3])]

\* the intervals [start, finish) of the two jobs on the resource overlap
Overlap(t) ==
    Later(StartOf(t[1], t[3]), StartOf(t[2], t[3]))
        < 0 - Later(0 - FinishOf(t[1], t[3]), 0 - FinishOf(t[2], t[3]))

\* C10 (as claimed): in every assignment that satisfies the two big-M
\* inequalities of (j, k, resource), with M the bound and the starts inside
\* their domains, the intervals of j and k on the resource do not overlap
\* and precedes = 1 holds exactly when j's operation finishes before k's
\* starts.
C10_PrecedesExactlyWhenJFirst ==
    pc = "solved" =>
        \A t \in DisjunctiveTriples :
            BothInequalitiesHold(t) =>
                /\ ~Overlap(t)
                /\ Precedes(t) = 1 <=> FinishOf(t[1], t[3]) <= StartOf(t[2], t[3])

\* C10 (amended): the intervals do not overlap; precedes = 1 implies that j
\* finishes before k starts and precedes = 0 that k finishes before j
\* starts; precedes = 1 holds exactly when j finishes before k starts
\* provided one of the two operations takes time.
C10_NoOverlapAndOrderFollowsPrecedes ==
    pc = "solved" =>
        \A t \in DisjunctiveTriples :
            BothInequalitiesHold(t) =>
                /\ ~Overlap(t)
                /\ Precedes(t) = 1 => FinishOf(t[1], t[3]) <= StartOf(t[2], t[3])
                /\ Precedes(t) = 0 => FinishOf(t[2], t[3]) <= StartOf(t[1], t[3])
                /\ DurationOf(t[1], t[3]) + DurationOf(t[2], t[3]) > 0 =>
                      (Precedes(t) = 1 <=> FinishOf(t[1], t[3]) <= StartOf(t[2], t[3]))

\* a sample satisfies both inequalities of a triple whose two operations
\* take time, with precedes = 1
C10_Witness ==
    /\ pc = "solved"
    /\ \E t \in DisjunctiveTriples :
          /\ BothInequalitiesHold(t)
          /\ Precedes(t) = 1
          /\ DurationOf(t[1], t[3]) > 0
          /\ DurationOf(t[2], t[3]) > 0

---------------------------------------------------------------------------
(* Claims about the precedence and makespan constraints, under SpecModel *)

PrecedenceAdded ==
    pc \in {"precedence", "disjunctive", "makespan", "objective", "solved"}

PrecedenceLabels ==
    {label \in DOMAIN model.cqm.constraints : label[1] = "pj"}

\* the sample satisfies the constraint carrying the label
Holds(label) ==
    /\ label \in DOMAIN model.cqm.constraints
    /\ Satisfies(model._best_sample_cqm, model.cqm.constraints[label])

\* C11: add_precedence_constraints emits one constraint per consecutive pair
\* of operations of each job, and in every assignment satisfying the
\* constraint of a pair the later operation starts no earlier than the
\* finish (start + duration) of the operation before it in the job's route.
C11_OnePrecedencePerPairAndOrder ==
    /\ PrecedenceAdded =>
          /\ PrecedenceLabels =
                {PrecedenceLabel(pair[1], job_tasks[pair[1]][pair[2] + 1].resource) :
                    pair \in ConsecutivePairs}
          /\ Cardinality(PrecedenceLabels) = Cardinality(ConsecutivePairs)
    /\ pc = "solved" =>
          \A pair \in ConsecutivePairs :
              LET prev_task == job_tasks[pair[1]][pair[2]]
                  curr_task == job_tasks[pair[1]][pair[2] + 1]
              IN  Holds(PrecedenceLabel(pair[1], curr_task.resource)) =>
                      StartOf(pair[1], curr_task.resource)
                          >= StartOf(pair[1], prev_task.resource) + prev_task.duration

\* a solved model in which both jobs have a consecutive pair whose first
\* operation takes time, and the sample satisfies both constraints
C11_Witness ==
    /\ pc = "solved"
    /\ Cardinality(ConsecutivePairs) = 2
    /\ \A pair \in ConsecutivePairs :
          /\ job_tasks[pair[1]][pair[2]].duration > 0
          /\ Holds(PrecedenceLabel(pair[1], job_tasks[pair[1]][pair[2] + 1].resource))

\* the largest finish time of the schedule the sample describes
LargestFinish ==
    LET finishes == {FinishOf(key[1], key[2]) : key \in jobs \X resources}
    IN  CHOOSE f \in finishes : \A g \in finishes : f >= g

\* the sample satisfies every precedence and every makespan constraint
PrecedenceAndMakespanHold(sample) ==
    \A label \in DOMAIN model.cqm.constraints :
        label[1] \in {"pj", "makespan_ctr"} =>
            Satisfies(sample, model.cqm.constraints[label])

\* C12: in every assignment satisfying the precedence and makespan
\* constraints the makespan variable is at least the finish time of every
\* operation of every job, and the least value of the objective for the
\* assignment's start times is the largest finish time of the schedule.
C12_MakespanCoversEveryFinish ==
    (pc = "solved" /\ PrecedenceAndMakespanHold(model._best_sample_cqm)) =>
        /\ \A key \in jobs \X resources :
              model._best_sample_cqm[MakespanLabel] >= FinishOf(key[1], key[2])
        /\ PrecedenceAndMakespanHold(
              [model._best_sample_cqm EXCEPT ![MakespanLabel] = LargestFinish])
        /\ \A lower \in 0..(LargestFinish - 1) :
              ~PrecedenceAndMakespanHold(
                  [model._best_sample_cqm EXCEPT ![MakespanLabel] = lower])

\* a sample satisfies the precedence and makespan constraints with a
\* makespan above the largest finish, which is not that of a last operation
\* started at 0
C12_Witness ==
    /\ pc = "solved"
    /\ PrecedenceAndMakespanHold(model._best_sample_cqm)
    /\ model._best_sample_cqm[MakespanLabel] > LargestFinish
    /\ LargestFinish > 1

---------------------------------------------------------------------------
(* Claims about the two-job scenario, checked under SpecScenario *)

\* the assignments of the CQM's variables that satisfy every constraint
FeasibleSamples ==
    {sample \in Samples(model.cqm) :
        \A label \in DOMAIN model.cqm.constraints :
            Satisfies(sample, model.cqm.constraints[label])}

\* the least makespan of the assignments of the set
LeastMakespan(samples) ==
    Min({sample[MakespanLabel] : sample \in samples})

\* in the sample job b's operation on r1 ends before job a's begins
BFirstOnR1(sample) ==
    sample[XLabel("b", "r1")] + 2 <= sample[XLabel("a", "r1")]

\* C13 (as claimed): for job a = [(r1,3),(r2,2)] and job b = [(r1,2),(r2,4)]
\* the minimum makespan over all assignments satisfying the precedence,
\* disjunctive and makespan constraints is 7, achieved by a schedule that
\* runs b before a on r1.
C13_ScenarioOptimumIsSeven ==
    pc = "objective" =>
        /\ FeasibleSamples # {}
        /\ LeastMakespan(FeasibleSamples) = 7
        /\ \E sample \in FeasibleSamples :
              sample[MakespanLabel] = 7 /\ BFirstOnR1(sample)

\* C13 (amended): the minimum makespan over all assignments satisfying the
\* precedence, disjunctive and makespan constraints is 8; a schedule that
\* runs b before a on r1 achieves it and every assignment achieving it runs
\* b before a on r1.
C13_ScenarioOptimumIsEight ==
    pc = "objective" =>
        /\ FeasibleSamples # {}
        /\ LeastMakespan(FeasibleSamples) = 8
        /\ \E sample \in FeasibleSamples :
              sample[MakespanLabel] = 8 /\ BFirstOnR1(sample)
        /\ \A sample \in FeasibleSamples :
              sample[MakespanLabel] = 8 => BFirstOnR1(sample)

\* the solver returns an assignment of makespan 8 that satisfies every
\* constraint and runs b before a on r1
C13_Witness ==
    /\ pc = "solved"
    /\ model.makespan = 8
    /\ BFirstOnR1(model._best_sample_cqm)
    /\ \A label \in DOMAIN model.cqm.constraints : Holds(label)

---------------------------------------------------------------------------
(* Claims about the strategies, checked under SpecStrategies *)

\* the instance has no operation
ZeroOperations == get_tasks = <<>>

\* the rows of the data frame run_shop_scheduler returned
ReturnedRows == last.value[1]

\* C14 (as claimed): running the pipeline on an instance with zero
\* operations, whether it has no jobs or has registered jobs with empty
\* routes, never raises and yields an empty schedule.
C14_ZeroOperationsNeverRaise ==
    ZeroOperations =>
        /\ pc # "raised"
        /\ pc = "returned" => ReturnedRows = <<>>

\* every job visits every resource, all jobs in the same order
FlowShop ==
    /\ \A job \in jobs : {job_tasks[job][n].resource : n \in 1..Len(job_tasks[job])} = resources
    /\ \A j, k \in jobs :
          [n \in 1..Len(job_tasks[j]) |-> job_tasks[j][n].resource]
              = [n \in 1..Len(job_tasks[k]) |-> job_tasks[k][n].resource]

\* C15 (as claimed): requesting the order-based (NL) strategy for an
\* instance whose jobs do not all visit all resources in the same order
\* fails before the NL model is built or the NL solver is called, and never
\* returns a schedule.
C15_NLRejectsNonFlowShop ==
    (args.use_nl_solver /\ ~FlowShop) =>
        /\ pc \in {"start", "constructed", "raised"}
        /\ pc = "raised" => last.op \in {"JobShopSchedulingModel", "create_nl_model"}
        /\ backend.calls = <<>>

\* C16 (as claimed): when a backend finds no feasible assignment the solve
\* call warns and returns normally and the resulting schedule is empty, for
\* the CQM strategy and the HiGHS/SciPy strategy alike.
C16_InfeasibleGivesEmptySchedule ==
    (pc \in {"solved", "returned"} /\ backend.warnings # <<>>) =>
        /\ model.solution = <<>>
        /\ pc = "returned" => ReturnedRows = <<>>

\* C17 (as claimed): for every strategy the time limit handed to the backend
\* solver never exceeds the time limit the caller passed to
\* run_shop_scheduler.
C17_HandedLimitWithinCallersLimit ==
    pc # "start" =>
        \A n \in 1..Len(backend.calls) :
            backend.calls[n].time_limit <= args.solver_time_limit

\* the (job, resource) pairs of the instance: the operations
RequiredPairs ==
    {<<get_tasks[n].job, get_tasks[n].resource>> : n \in 1..Len(get_tasks)}

\* C19 (as claimed): after a solve that reports a feasible result, for every
\* strategy (CQM, NL, HiGHS/SciPy) the schedule holds exactly one row for
\* every (job, resource) pair of the instance with Finish = Start + duration
\* of the pair's operation; the NL solver's result, a permutation, is always
\* feasible.
C19_OneRowPerPairWhenFeasible ==
    /\ (pc = "returned" /\ backend.warnings = <<>>) =>
          /\ {<<ReturnedRows[n].Job, ReturnedRows[n].Resource>> :
                 n \in 1..Len(ReturnedRows)} = RequiredPairs
          /\ Len(ReturnedRows) = Cardinality(RequiredPairs)
          /\ \A n \in 1..Len(ReturnedRows) :
                /\ ReturnedRows[n].Task =
                      get_resource_job_tasks(ReturnedRows[n].Resource,
                                             ReturnedRows[n].Job).value[1]
                /\ ReturnedRows[n].Finish =
                      ReturnedRows[n].Start + ReturnedRows[n].Task.duration
    /\ (pc # "start" /\ \E n \in 1..Len(backend.calls) :
                            backend.calls[n].solver = "HSSNLSolver") =>
          pc = "returned"

---------------------------------------------------------------------------
(* Claim about _calculate_end_times, checked under SpecEndTimes *)

\* the classical recurrence, a missing neighbour taken as 0
RECURSIVE finish(_, _, _, _)
finish(duration, order, m, j) ==
    IF m = 0 \/ j = 0
    THEN 0
    ELSE LET above == finish(duration, order, m - 1, j)
             left == finish(duration, order, m, j - 1)
         IN  (IF above >= left THEN above ELSE left) + duration[m][order[j]]

\* the matrix _calculate_end_times returned
ReturnedEndTimes == last.value[1]

\* C18: for every processing-time matrix and every job permutation,
\* _calculate_end_times returns the matrix finish[m][j] =
\* max(finish[m-1][j], finish[m][j-1]) + duration[m][order[j]], the missing
\* neighbours of the first machine and of the first position taken as 0.
C18_EndTimesFollowTheRecurrence ==
    pc = "end_times" =>
        LET duration == processing_times.times
            order == model.nl_model.order
        IN  /\ Len(ReturnedEndTimes) = Len(duration)
            /\ \A m \in 1..Len(duration) :
                  /\ Len(ReturnedEndTimes[m]) = Len(order)
                  /\ \A j \in 1..Len(order) :
                        ReturnedEndTimes[m][j] = finish(duration, order, m, j)

\* C18 witness: end times returned for two machines and three jobs in an
\* order that is not the file's, where a job waits for the machine (its
\* finish on the previous machine is earlier than the machine's last finish)
C18_Witness ==
    /\ pc = "end_times"
    /\ Len(ReturnedEndTimes) = 2
    /\ Len(ReturnedEndTimes[1]) = 3
    /\ model.nl_model.order # <<1, 2, 3>>
    /\ \E j \in 2..3 : ReturnedEndTimes[1][j] < ReturnedEndTimes[2][j - 1]

---------------------------------------------------------------------------
(* Claim about get_minimum_task_times, checked under SpecCharts *)

\* the rows get_minimum_task_times returned
ChartRows == last.value[1]

\* max(start_i, start_j) < min(finish_i, finish_j)
StrictOverlap(row_i, row_j) ==
    LET latest_start == IF row_i.Start >= row_j.Start THEN row_i.Start ELSE row_j.Start
        earliest_finish == IF row_i.Finish <= row_j.Finish THEN row_i.Finish ELSE row_j.Finish
    IN  latest_start < earliest_finish

\* C20 (as claimed): a row has Conflicts = "Yes" exactly when some other
\* row on the same resource satisfies max(start_i, start_j) <
\* min(finish_i, finish_j) with it, for all durations >= 0, zero included.
C20_FlaggedExactlyOnStrictOverlap ==
    (pc = "returned" /\ last.op = "get_minimum_task_times") =>
        \A n \in 1..Len(ChartRows) :
            ChartRows[n].Conflicts = "Yes" <=>
                \E m \in 1..Len(ChartRows) :
                    /\ m # n
                    /\ ChartRows[m].Operation = ChartRows[n].Operation
                    /\ StrictOverlap(ChartRows[n], ChartRows[m])

---------------------------------------------------------------------------
(* Claim about the overlap test and the half-open intervals, checked       *)
(* under SpecCharts                                                        *)

\* the half-open intervals [Start, Finish) of two rows share a time
HalfOpenIntervalsMeet(row_i, row_j) ==
    \E t \in 0..(row_i.Finish + row_j.Finish) :
        /\ row_i.Start <= t /\ t < row_i.Finish
        /\ row_j.Start <= t /\ t < row_j.Finish

\* C21 (as claimed): the overlap test reports zero conflicts exactly when,
\* on every resource, no two operations' [start, finish) intervals overlap.
C21_NoConflictExactlyWhenDisjoint ==
    (pc = "returned" /\ last.op = "get_minimum_task_times") =>
        ((\A n \in 1..Len(ChartRows) : ChartRows[n].Conflicts = "No")
            <=> \A n, m \in 1..Len(ChartRows) :
                    (n # m /\ ChartRows[n].Operation = ChartRows[m].Operation)
                        => ~HalfOpenIntervalsMeet(ChartRows[n], ChartRows[m]))

---------------------------------------------------------------------------
(* src/src/generate_charts.py, generate_gantt_chart, and the callbacks of  *)
(* src/app.py that call it twice on one data frame.  A data frame is its   *)
(* list of columns and its list of rows; a row maps a column to a value.   *)

\* pd.DataFrame(task_data) of get_minimum_task_times, with df["delta"]
ChartFrame(task_data) ==
    [columns |-> <<"Job", "Start", "Finish", "Operation", "Conflicts", "delta">>,
     rows |-> [n \in 1..Len(task_data) |->
                  DictSet(task_data[n], "delta",
                          task_data[n].Finish - task_data[n].Start)]]

\* pd.DataFrame(df_rows, columns=["Job", "Task", "Start", "Finish", "Resource"])
ScheduleFrame(df_rows) ==
    [columns |-> <<"Job", "Task", "Start", "Finish", "Resource">>,
     rows |-> df_rows]

\* df[column] = values: a new column is appended, an old one overwritten
SetColumn(df, column, values) ==
    [columns |-> IF \E n \in 1..Len(df.columns) : df.columns[n] = column
                 THEN df.columns
                 ELSE Append(df.columns, column),
     rows |-> [n \in 1..Len(df.rows) |-> DictSet(df.rows[n], column, values[n])]]

\* df.drop(columns=[column]): a new frame
DropColumn(df, column) ==
    [columns |-> SelectSeq(df.columns, LAMBDA c : c # column),
     rows |-> [n \in 1..Len(df.rows) |-> DictDel(df.rows[n], column)]]

HasColumn(df, column) == \E n \in 1..Len(df.columns) : df.columns[n] = column

\* sort_values(by=[sort_by], ascending=False) with the default
\* kind="quicksort", which is not stable: rows with equal keys come out
\* in an order the build decides.  The rows of every outcome.
sort_values(rows, sort_by) ==
    {[n \in 1..Len(rows) |-> rows[order[n]]] :
        order \in {o \in Orders(1..Len(rows)) :
                      \A n \in 1..(Len(rows) - 1) :
                          rows[o[n]][sort_by] >= rows[o[n + 1]][sort_by]}}

\* the lines of generate_gantt_chart that assign into the frame passed in:
\* df["JobInt"] = ..., df["delta"] = df.Finish - df.Start (the job names
\* of a loaded file are numerals, JobRank their value)
WithJobIntAndDelta(df) ==
    LET with_job_int == SetColumn(df, "JobInt",
                                  [n \in 1..Len(df.rows) |-> JobRank[df.rows[n].Job]])
    IN  SetColumn(with_job_int, "delta",
                  [n \in 1..Len(df.rows) |-> df.rows[n].Finish - df.rows[n].Start])

\* len(color_labels): the number of distinct df[COLOR_LABEL] values
NumItems(df) == Cardinality({df.rows[n].Operation : n \in 1..Len(df.rows)})

\* generate_gantt_chart(df, sort_by), the next call of the callback.  The
\* frame passed in is the callback's own object: what the function assigns
\* into df before df is rebound by sort_values stays in it.
\*  - df[COLOR_LABEL] raises KeyError when the frame has no "Operation";
\*  - n / (num_items - 1) raises ZeroDivisionError for a single label.
generate_gantt_chart ==
    /\ pc = "charts"
    /\ app.pending # <<>>
    /\ UNCHANGED <<data_vars, args, model, estimates, backend>>
    /\ LET sort_by == Head(app.pending)
           df == WithJobIntAndDelta(app.df)
       IN  IF ~HasColumn(df, "Operation")
           THEN /\ app' = [app EXCEPT !.df = df, !.pending = <<>>]
                /\ Raise("generate_gantt_chart", "KeyError")
           ELSE IF NumItems(df) = 1
           THEN /\ app' = [app EXCEPT !.df = df, !.pending = <<>>]
                /\ Raise("generate_gantt_chart", "ZeroDivisionError")
           ELSE \E sorted \in sort_values(df.rows, sort_by) :
                   /\ app' = [app EXCEPT
                         !.df = df,
                         !.pending = Tail(@),
                         !.fig = Append(@, DropColumn([df EXCEPT !.rows = sorted],
                                                      "JobInt"))]
                   /\ pc' = IF Tail(app.pending) = <<>> THEN "returned" ELSE "charts"
                   /\ last' = Call("generate_gantt_chart", "ok", <<sort_by>>, <<>>)

\* the rows solution_as_dataframe gives for a schedule that starts every
\* operation at its earliest time
ScheduleRows(task_data, tasks) ==
    [n \in 1..Len(task_data) |->
        [Job |-> task_data[n].Job, Task |-> tasks[n], Start |-> task_data[n].Start,
         Finish |-> task_data[n].Finish, Resource |-> task_data[n].Operation]]

\* The frames the callbacks chart: generate_unscheduled_gantt_chart charts
\* df = get_minimum_task_times(model_data) twice by job; the run callbacks
\* chart results = run_shop_scheduler(...) by job and by start.
InitGantt ==
    /\ \E times \in Matrices(ProcessingTimes) :
          /\ jobs = Jobs
          /\ resources = Resources
          /\ processing_times = [loaded |-> TRUE, times |-> times]
          /\ \E edit \in {"none", "without_last"} :
                job_tasks = [LoadedTasks(times) EXCEPT !["b"] =
                                IF edit = "none" THEN @ ELSE WithoutLast(@)]
    /\ \E job_order \in Orders(jobs) :
          LET task_data == WithConflicts(TaskData(job_order))
          IN  \/ app = [df |-> ChartFrame(task_data),
                        pending |-> <<"JobInt", "JobInt">>, fig |-> <<>>]
              \/ app = [df |-> ScheduleFrame(ScheduleRows(task_data,
                                                Flatten(job_tasks, job_order))),
                        pending |-> <<"JobInt", "Start">>, fig |-> <<>>]
    /\ last = Call("JobShopData", "ok", <<>>, <<>>)
    /\ pc = "charts"
    /\ args = <<>>
    /\ model = <<>>
    /\ estimates = <<>>
    /\ backend = <<>>

NextGantt == generate_gantt_chart

SpecGantt == InitGantt /\ [][NextGantt]_vars

---------------------------------------------------------------------------
(* Claim about generate_gantt_chart, checked under SpecGantt *)

\* C22 (as claimed): producing the job-sorted or the start-sorted view of a
\* schedule leaves the schedule passed in unchanged: same rows, same row
\* order, same columns and same values after the call as before it.
C22_ChartingLeavesTheFrameUnchanged ==
    [][app'.df = app.df]_vars

---------------------------------------------------------------------------
(* sort_values applied again and again to a frame: the sorted views of a   *)
(* schedule, each sort taking the rows the previous one returned.          *)

\* the longest chain of sorts
MaxSorts == 3

\* df = df.sort_values(by=[sort_by], ascending=False) on the current view
sort_view(sort_by) ==
    /\ pc = "sorting"
    /\ Len(app.sorts) < MaxSorts
    /\ UNCHANGED <<data_vars, args, model, estimates, backend, pc>>
    /\ \E sorted \in sort_values(app.view, sort_by) :
          app' = [app EXCEPT !.view = sorted,
                             !.sorts = Append(@, sort_by),
                             !.views = Append(@, sorted)]
    /\ last' = Call("sort_values", "ok", <<sort_by>>, <<>>)

\* the frames sorted: the rows of a loaded instance, or of one whose job b
\* was edited, every operation at its earliest time, with the JobInt column
InitSort ==
    /\ \E times \in Matrices(Durations) :
          /\ jobs = Jobs
          /\ resources = Resources
          /\ processing_times = [loaded |-> TRUE, times |-> times]
          /\ \E edit \in {"none", "without_last"} :
                job_tasks = [LoadedTasks(times) EXCEPT !["b"] =
                                IF edit = "none" THEN @ ELSE WithoutLast(@)]
    /\ \E job_order \in Orders(jobs) :
          LET df == WithJobIntAndDelta(ChartFrame(WithConflicts(TaskData(job_order))))
          IN  app = [view |-> df.rows, sorts |-> <<>>, views |-> <<>>]
    /\ last = Call("JobShopData", "ok", <<>>, <<>>)
    /\ pc = "sorting"
    /\ args = <<>>
    /\ model = <<>>
    /\ estimates = <<>>
    /\ backend = <<>>

NextSort == \E sort_by \in {"JobInt", "Start"} : sort_view(sort_by)

SpecSort == InitSort /\ [][NextSort]_vars

---------------------------------------------------------------------------
(* Claim about the sorted views, checked under SpecSort *)

\* C23 (as claimed): sorting by job, then by start time, then by job again
\* yields the same row order as the first sort by job, for every schedule
\* including those with several rows per job and with equal start times.
C23_JobStartJobIsJob ==
    app.sorts = <<"JobInt", "Start", "JobInt">> => app.views[3] = app.views[1]

---------------------------------------------------------------------------
(* load_from_file among the other calls on a JobShopData.  The file's job  *)
(* names str(job) are the names of Jobs in the order of JobRank, and the   *)
(* machine names are ResourceNames.                                        *)

\* the longest operation list of a job that load_from_file may extend to
MaxLoadedLen == 4

\* the elements of a set of numbers in increasing order
RECURSIVE SetToSortedSeq(_)
SetToSortedSeq(S) ==
    IF S = {} THEN <<>> ELSE <<Min(S)>> \o SetToSortedSeq(S \ {Min(S)})

\* a Task object is new at every Task(...) call: the ids no caller and no
\* list holds, in increasing order (the id of a dropped object is free again)
FreeIds ==
    LET used == {task.id : task \in TaskPool}
                    \cup UNION {{job_tasks[j][n].id : n \in 1..Len(job_tasks[j])} :
                                    j \in DOMAIN job_tasks}
    IN  SetToSortedSeq((1..(Cardinality(used) + MaxLoadedLen)) \ used)

FreshId(job, machine) == FreeIds[(machine - 1) * Cardinality(Jobs) + JobRank[job]]

\* load_from_file(filename): the matrix replaces _processing_times, the
\* names replace _resource_names, and add_task is called for every cell,
\* machine by machine: each job's list is extended, never replaced
load_from_file(times) ==
    /\ \A job \in Jobs :
          (IF job \in DOMAIN job_tasks THEN Len(job_tasks[job]) ELSE 0) + Len(times)
              <= MaxLoadedLen
    /\ processing_times' = [loaded |-> TRUE, times |-> times]
    /\ resources' = resources \cup {ResourceNames[machine] : machine \in 1..Len(times)}
    /\ jobs' = jobs \cup Jobs
    /\ job_tasks' =
          [job \in DOMAIN job_tasks \cup Jobs |->
              (IF job \in DOMAIN job_tasks THEN job_tasks[job] ELSE <<>>)
              \o (IF job \in Jobs
                  THEN [machine \in 1..Len(times) |->
                           Task(FreshId(job, machine), job, ResourceNames[machine],
                                times[machine][JobRank[job]])]
                  ELSE <<>>)]
    /\ last' = Call("load_from_file", "ok", <<times>>, <<>>)
    /\ UNCHANGED pipeline_vars

NextLoad ==
    \/ \E times \in Matrices(Durations) : load_from_file(times)
    \/ \E task \in TaskPool : add_task(task, FALSE, 0)
    \/ \E task \in TaskPool : remove_task(task)
    \/ \E job \in Jobs : remove_job(job)

SpecLoad == Init /\ [][NextLoad]_vars

---------------------------------------------------------------------------
(* Claim about the routes, checked under SpecLoad *)

\* the operations of a job on a resource
OperationsOfOn(job, resource) ==
    {n \in 1..Len(job_tasks[job]) : job_tasks[job][n].resource = resource}

\* C24 (as claimed): after any sequence of add_task, remove_task,
\* remove_job and load_from_file calls every job has at most one operation
\* per resource; after load_from_file every job visits every resource
\* exactly once, in the same resource order for all jobs, with the duration
\* the loaded processing-time matrix gives for that machine and job.
C24_OneVisitPerResource ==
    /\ \A job \in DOMAIN job_tasks, resource \in resources :
          Cardinality(OperationsOfOn(job, resource)) <= 1
    /\ (last.op = "load_from_file" /\ last.outcome = "ok") =>
          \A job \in jobs :
              /\ Len(job_tasks[job]) = Len(processing_times.times)
              /\ \A machine \in 1..Len(job_tasks[job]) :
                    /\ job_tasks[job][machine].resource = ResourceNames[machine]
                    /\ job_tasks[job][machine].duration =
                          processing_times.times[machine][JobRank[job]]

---------------------------------------------------------------------------
(* Claim about the makespan attribute, checked under SpecStrategies *)

\* the Finish values of the rows of self.solution
SolutionFinishes ==
    {model.solution[key][2] + model.solution[key][3] : key \in DOMAIN model.solution}

\* C25 (as claimed): after any solve call that produces a non-empty
\* schedule, the model's makespan attribute equals the largest Finish value
\* among the schedule's rows.
C25_MakespanIsTheLargestFinish ==
    (pc = "solved" /\ model.solution # <<>>) =>
        /\ model.makespan \in SolutionFinishes
        /\ \A finish_time \in SolutionFinishes : finish_time <= model.makespan

---------------------------------------------------------------------------
(* Claim about the schedule of the order-based strategy, checked under     *)
(* SpecStrategies                                                          *)

\* HSSNLSolver().solve was called
NLSolveMade ==
    \E n \in 1..Len(backend.calls) : backend.calls[n].solver = "HSSNLSolver"

\* start and finish of the row self.solution holds for (job, resource)
RowStart(job, resource) == model.solution[<<job, resource>>][2]
RowFinish(job, resource) ==
    model.solution[<<job, resource>>][2] + model.solution[<<job, resource>>][3]

\* C26 (as claimed): the schedule the order-based strategy derives from the
\* end-time matrix (start = end - duration) is feasible: it has the row of
\* every job on every machine, each job's operation on machine m starts no
\* earlier than its operation on machine m-1 finishes, and no two jobs'
\* intervals on the same machine overlap.
C26_NLScheduleIsFeasible ==
    (NLSolveMade /\ FlowShop) =>
        /\ DOMAIN model.solution = jobs \X resources
        /\ \A job \in jobs, machine \in 2..Len(ResourceNames) :
              RowStart(job, ResourceNames[machine])
                  >= RowFinish(job, ResourceNames[machine - 1])
        /\ \A j, k \in jobs, resource \in resources :
              j # k => \/ RowStart(k, resource) >= RowFinish(j, resource)
                       \/ RowStart(j, resource) >= RowFinish(k, resource)

---------------------------------------------------------------------------
(* The CQM built for instances of three resources, each job visiting each  *)
(* resource once, with a max_makespan the caller passes.                   *)

\* the resources of the instances of SpecFit
FitResources == {"r1", "r2", "r3"}
\* the durations of their operations
FitDurations == {0, 1, 2}
\* the largest max_makespan passed
MaxFitBound == 2

\* job a visits r1, r2, r3 in that order, job b in any order
InitFit ==
    /\ jobs = Jobs
    /\ resources = FitResources
    /\ \E durations_a, durations_b \in [1..Cardinality(FitResources) -> FitDurations],
          visits_b \in Orders(FitResources) :
          job_tasks = [job \in Jobs |->
                          IF job = "a"
                          THEN RouteOf("a", <<"r1", "r2", "r3">>, durations_a)
                          ELSE RouteOf("b", visits_b, durations_b)]
    /\ processing_times = NotLoaded
    /\ last = Call("JobShopData", "ok", <<>>, <<>>)
    /\ pc = "start"
    /\ args \in [max_makespan_given : {TRUE}, max_makespan : 1..MaxFitBound,
                greedy_multiplier : {DefaultMultiplier},
                solver_time_limit : {DefaultTimeLimit},
                use_scipy_solver : {FALSE}, use_nl_solver : {FALSE},
            verbose : {FALSE}]
    /\ model = <<>>
    /\ estimates = <<>>
    /\ backend = Backend(MinTimeLimit)
    /\ app = <<>>

\* run_shop_scheduler up to the solve
NextFit ==
    \/ JobShopSchedulingModel_init
    \/ define_cqm_variables
    \/ add_precedence_constraints
    \/ add_disjunctive_constraints
    \/ add_makespan_constraint
    \/ define_cqm_objective

SpecFit == InitFit /\ [][NextFit]_vars

---------------------------------------------------------------------------
(* Claim about the schedules the CQM admits, checked under SpecFit *)

\* the operation of a (job, resource) pair
OperationOf(pair) == get_resource_job_tasks(pair[2], pair[1]).value[1]

\* the start times of the schedules that respect the order of each job's
\* operations and the exclusivity of each resource ([start, finish)
\* intervals of two jobs share no time) and finish by the makespan bound
FittingSchedules ==
    LET bound == NumFloor(model.max_makespan)
        finish_of(s, pair) == s[pair] + OperationOf(pair).duration
    IN  {s \in [jobs \X resources -> 0..bound] :
            /\ \A pair \in jobs \X resources : finish_of(s, pair) <= bound
            /\ \A job \in jobs :
                  \A n \in 2..Len(job_tasks[job]) :
                      s[<<job, job_tasks[job][n].resource>>]
                          >= finish_of(s, <<job, job_tasks[job][n - 1].resource>>)
            /\ \A t \in DisjunctiveTriples :
                  ~\E time \in 0..bound :
                      /\ s[<<t[1], t[3]>>] <= time /\ time < finish_of(s, <<t[1], t[3]>>)
                      /\ s[<<t[2], t[3]>>] <= time /\ time < finish_of(s, <<t[2], t[3]>>)}

\* the sample of the CQM for start times s and precedes values y, the
\* makespan variable at the largest finish
SampleOf(s, y) ==
    LET labels == DOMAIN model.cqm.variables
        largest == CHOOSE f \in {s[pair] + OperationOf(pair).duration :
                                    pair \in jobs \X resources} :
                      \A pair \in jobs \X resources :
                          s[pair] + OperationOf(pair).duration <= f
    IN  [label \in labels |->
            IF label = MakespanLabel THEN largest
            ELSE IF \E pair \in jobs \X resources : XLabel(pair[1], pair[2]) = label
            THEN s[CHOOSE pair \in jobs \X resources : XLabel(pair[1], pair[2]) = label]
            ELSE y[CHOOSE t \in DisjunctiveTriples : YLabel(t[1], t[2], t[3]) = label]]

\* C27 (as claimed): for every instance in which each job visits each
\* resource once and every schedule that respects job precedence and
\* resource exclusivity and finishes by the makespan bound, every start time
\* lies inside its variable's domain and some choice of precedes values
\* satisfies every constraint of the model.
C27_FittingSchedulesAreAdmitted ==
    pc = "objective" =>
        \A s \in FittingSchedules :
            /\ \A pair \in jobs \X resources :
                  /\ model._x[pair].lower_bound <= s[pair]
                  /\ s[pair] <= NumFloor(model._x[pair].upper_bound)
            /\ \E y \in [DisjunctiveTriples -> {0, 1}] :
                  IsFeasible(model.cqm, SampleOf(s, y))

---------------------------------------------------------------------------
(* run_shop_scheduler called with and without verbose on the instances of  *)
(* a loaded file, with each of the three solvers.                          *)

InitVerbose ==
    /\ \E times \in Matrices(Durations) :
          /\ jobs = Jobs
          /\ resources = Resources
          /\ processing_times = [loaded |-> TRUE, times |-> times]
          /\ job_tasks = LoadedTasks(times)
    /\ last = Call("JobShopData", "ok", <<>>, <<>>)
    /\ pc = "start"
    /\ args \in [max_makespan_given : {TRUE}, max_makespan : 1..MaxStrategyBound,
                greedy_multiplier : {DefaultMultiplier},
                solver_time_limit : {DefaultTimeLimit},
                use_scipy_solver : BOOLEAN, use_nl_solver : BOOLEAN,
                verbose : BOOLEAN]
    /\ model = <<>>
    /\ estimates = <<>>
    /\ backend = Backend(MinTimeLimit)
    /\ app = <<>>

NextVerbose ==
    \/ print_cqm_stats
    \/ NextStrategies

SpecVerbose == InitVerbose /\ [][NextVerbose]_vars

---------------------------------------------------------------------------
(* Claim about the verbose flag, checked under SpecVerbose *)

\* C28 (as claimed): the verbose flag only adds printed output: the call
\* with verbose=True completes as the call with verbose=False does; its
\* run is never ended by the printing.
C28_VerboseOnlyPrints ==
    args.verbose => ~(pc = "raised" /\ last.op = "print_cqm_stats")

---------------------------------------------------------------------------
(* The labels define_cqm_variables writes and the parsing of them in       *)
(* call_scipy_solver, on instances of one job and one resource whose names *)
(* are any of the names spelt in Chars.                                    *)

LabelNames == DOMAIN Chars

\* the labels of the variables define_cqm_variables creates for the
\* instance: makespan, x[job, resource] and y[job, job, resource]
VariableLabels(job, resource) ==
    [makespan |-> MakespanLabel,
     x |-> XLabel(job, resource),
     y |-> YLabel(job, job, resource)]

\* define_cqm_variables: the labels are written
define_cqm_variables_labels ==
    /\ pc = "named"
    /\ UNCHANGED <<data_vars, args, model, estimates, backend>>
    /\ app' = [app EXCEPT !.labels = VariableLabels(app.job, app.resource)]
    /\ Return("define_cqm_variables", "labelled")

\* one turn of the loop of call_scipy_solver on the variable var of the
\* sample: skipped when its label does not start with "x"; else
\* job, machine = var[1:].split("_"), a ValueError when the split does not
\* give exactly two parts
scipy_parse(var) ==
    /\ pc = "labelled"
    /\ UNCHANGED <<data_vars, args, model, estimates, backend>>
    /\ LET label == app.labels[var]
           parts == ScipyParts([l \in {label} |-> 0])
       IN  IF label \notin DOMAIN parts
           THEN /\ app' = [app EXCEPT !.var = var, !.parsed = <<>>]
                /\ Return("call_scipy_solver", "skipped")
           ELSE IF Len(parts[label]) # 2
           THEN /\ app' = [app EXCEPT !.var = var, !.parsed = <<>>]
                /\ Raise("call_scipy_solver", "ValueError")
           ELSE /\ app' = [app EXCEPT !.var = var,
                                      !.parsed = [job |-> parts[label][1],
                                                  machine |-> parts[label][2]]]
                /\ Return("call_scipy_solver", "parsed")

InitLabels ==
    /\ \E job \in LabelNames, resource \in LabelNames, duration \in Durations :
          /\ jobs = {job}
          /\ resources = {resource}
          /\ job_tasks = [j \in {job} |-> <<Task(1, job, resource, duration)>>]
          /\ app = [job |-> job, resource |-> resource, labels |-> <<>>,
                    var |-> "", parsed |-> <<>>]
    /\ processing_times = NotLoaded
    /\ last = Call("JobShopData", "ok", <<>>, <<>>)
    /\ pc = "named"
    /\ args = <<>>
    /\ model = <<>>
    /\ estimates = <<>>
    /\ backend = <<>>

NextLabels ==
    \/ define_cqm_variables_labels
    \/ \E var \in {"makespan", "x", "y"} : scipy_parse(var)

SpecLabels == InitLabels /\ [][NextLabels]_vars

---------------------------------------------------------------------------
(* Claim about the labels, checked under SpecLabels *)

\* C29 (as claimed): parsing the label of x[job, resource] recovers exactly
\* (job, resource), for every job name and resource name, and neither the
\* makespan variable nor a precedes binary is taken for a start variable.
C29_LabelsRoundTrip ==
    pc \in {"skipped", "parsed", "raised"} =>
        IF app.var = "x"
        THEN /\ pc = "parsed"
             /\ app.parsed = [job |-> Chars[app.job],
                              machine |-> Chars[app.resource]]
        ELSE pc = "skipped"

---------------------------------------------------------------------------
(* src/app.py: the callbacks a click on Run or Cancel fires.  The page     *)
(* holds the stores running-dwave and running-classical and the class      *)
(* names of the two buttons ("" shown, "display-none" hidden; the stores    *)
(* start without data, which the callbacks read as false).  A callback's   *)
(* outputs reach the page in one step when its response arrives; the       *)
(* responses of different callbacks arrive in any order.  A callback that  *)
(* raises writes none of its outputs.  A store written by a response        *)
(* requests update_button_visibility with the values the two stores then   *)
(* have; a request of it still in flight is replaced by the newer one.     *)

MaxClicks == 2

SolverNames == {"HYBRID", "HIGHS"}

\* results = run_shop_scheduler(...): the frame of solution_as_dataframe,
\* without rows when the solver warned that it found nothing
SolveResults ==
    {ScheduleFrame(<<>>),
     ScheduleFrame(<<[Job |-> "a", Task |-> Task(11, "a", "r1", 1), Start |-> 0,
                      Finish |-> 1, Resource |-> "r1"]>>)}

\* generate_gantt_chart(results, ...) raises KeyError at df[COLOR_LABEL]
\* for a frame without the column "Operation"
ChartRaises(results) == ~HasColumn(results, "Operation")

\* the body of run_optimization_hybrid for a selected solver, after the
\* solve: the two charts, then int(results['Finish'].max()), a ValueError
\* for a frame without rows (the largest of no values is NaN); every
\* return sets running_dwave=False
hybrid_outcome(results) ==
    IF ChartRaises(results) \/ Len(results.rows) = 0 THEN "raised" ELSE "returned"

\* the body of run_optimization_scipy for a selected solver, after the
\* solve: a frame without rows is answered with the empty figure, else the
\* two charts are drawn; every return sets running_classical=False
scipy_outcome(results) ==
    IF Len(results.rows) = 0 THEN "returned"
    ELSE IF ChartRaises(results) THEN "raised" ELSE "returned"

\* a response wrote a store: update_button_visibility is requested with
\* the values of the two stores
RequestVisibility(page) ==
    [page EXCEPT !.visibility = [running_dwave |-> page.running_dwave,
                                 running_classical |-> page.running_classical]]

\* the user clicks Run (the button is shown) with the solvers selected:
\* update_tab_loading_state and the two background callbacks are requested
click_run(solvers) ==
    /\ pc = "page"
    /\ app.run_button = ""
    /\ app.clicks < MaxClicks
    /\ app.hybrid \notin {"requested", "solving"}
    /\ app.scipy \notin {"requested", "solving"}
    /\ UNCHANGED <<data_vars, args, model, estimates, backend, pc>>
    /\ app' = [app EXCEPT !.solvers = solvers, !.clicks = @ + 1,
                          !.tab_state = "run-button",
                          !.hybrid = "requested", !.scipy = "requested"]
    /\ last' = Call("click", "ok", <<"run-button">>, <<>>)

\* the user clicks Cancel (the button is shown): update_tab_loading_state
\* is requested, and the two background callbacks are cancelled
\* (cancel=[Input("cancel-button", "n_clicks")])
click_cancel ==
    /\ pc = "page"
    /\ app.cancel_button = ""
    /\ app.clicks > 0
    /\ UNCHANGED <<data_vars, args, model, estimates, backend, pc>>
    /\ app' = [app EXCEPT
          !.tab_state = "cancel-button",
          !.hybrid = IF @ \in {"requested", "solving"} THEN "cancelled" ELSE @,
          !.scipy = IF @ \in {"requested", "solving"} THEN "cancelled" ELSE @]
    /\ last' = Call("click", "ok", <<"cancel-button">>, <<>>)

\* update_tab_loading_state, its response applied to the page
update_tab_loading_state ==
    /\ pc = "page"
    /\ app.tab_state # "idle"
    /\ UNCHANGED <<data_vars, args, model, estimates, backend, pc>>
    /\ LET written ==
               IF app.tab_state = "run-button"
               THEN [app EXCEPT
                       !.running_dwave =
                           IF "HYBRID" \in app.solvers THEN TRUE ELSE @,
                       !.running_classical =
                           IF "HIGHS" \in app.solvers THEN TRUE ELSE @,
                       !.run_button = "display-none",
                       !.cancel_button = "",
                       !.tab_state = "idle"]
               ELSE [app EXCEPT
                       !.running_dwave = FALSE,
                       !.running_classical = FALSE,
                       !.run_button = "",
                       !.cancel_button = "display-none",
                       !.tab_state = "idle"]
       IN  app' = IF app.tab_state = "run-button" /\ app.solvers = {}
                  THEN written
                  ELSE RequestVisibility(written)
    /\ last' = Call("update_tab_loading_state", "ok", <<app.tab_state>>, <<>>)

\* run_optimization_hybrid is started: for a solver that is not selected
\* it returns at once with running_dwave=False, else the solve begins
run_optimization_hybrid_start ==
    /\ pc = "page"
    /\ app.hybrid = "requested"
    /\ UNCHANGED <<data_vars, args, model, estimates, backend, pc>>
    /\ app' = IF "HYBRID" \in app.solvers
              THEN [app EXCEPT !.hybrid = "solving"]
              ELSE RequestVisibility([app EXCEPT !.hybrid = "returned",
                                                 !.running_dwave = FALSE])
    /\ last' = Call("run_optimization_hybrid", "ok", <<"start">>, <<>>)

\* run_optimization_hybrid ends: the solve is over and the charts are made
run_optimization_hybrid_end ==
    /\ pc = "page"
    /\ app.hybrid = "solving"
    /\ UNCHANGED <<data_vars, args, model, estimates, backend, pc>>
    /\ \E results \in SolveResults :
          LET outcome == hybrid_outcome(results)
          IN  /\ app' = IF outcome = "returned"
                        THEN RequestVisibility([app EXCEPT !.hybrid = "returned",
                                                           !.running_dwave = FALSE])
                        ELSE [app EXCEPT !.hybrid = "raised"]
              /\ last' = Call("run_optimization_hybrid", outcome, <<"end">>, <<>>)

\* run_optimization_scipy is started
run_optimization_scipy_start ==
    /\ pc = "page"
    /\ app.scipy = "requested"
    /\ UNCHANGED <<data_vars, args, model, estimates, backend, pc>>
    /\ app' = IF "HIGHS" \in app.solvers
              THEN [app EXCEPT !.scipy = "solving"]
              ELSE RequestVisibility([app EXCEPT !.scipy = "returned",
                                                 !.running_classical = FALSE])
    /\ last' = Call("run_optimization_scipy", "ok", <<"start">>, <<>>)

\* run_optimization_scipy ends
run_optimization_scipy_end ==
    /\ pc = "page"
    /\ app.scipy = "solving"
    /\ UNCHANGED <<data_vars, args, model, estimates, backend, pc>>
    /\ \E results \in SolveResults :
          LET outcome == scipy_outcome(results)
          IN  /\ app' = IF outcome = "returned"
                        THEN RequestVisibility([app EXCEPT !.scipy = "returned",
                                                           !.running_classical = FALSE])
                        ELSE [app EXCEPT !.scipy = "raised"]
              /\ last' = Call("run_optimization_scipy", outcome, <<"end">>, <<>>)

\* update_button_visibility, its response applied to the page
update_button_visibility ==
    /\ pc = "page"
    /\ app.visibility # <<>>
    /\ UNCHANGED <<data_vars, args, model, estimates, backend, pc>>
    /\ app' = IF ~app.visibility.running_classical /\ ~app.visibility.running_dwave
              THEN [app EXCEPT !.run_button = "", !.cancel_button = "display-none",
                               !.visibility = <<>>]
              ELSE [app EXCEPT !.run_button = "display-none", !.cancel_button = "",
                               !.visibility = <<>>]
    /\ last' = Call("update_button_visibility", "ok", <<>>, <<>>)

\* the page as set_html lays it out
InitRun ==
    /\ jobs = {}
    /\ resources = {}
    /\ job_tasks = <<>>
    /\ processing_times = NotLoaded
    /\ last = Call("set_html", "ok", <<>>, <<>>)
    /\ pc = "page"
    /\ args = <<>>
    /\ model = <<>>
    /\ estimates = <<>>
    /\ backend = <<>>
    /\ app = [solvers |-> {}, clicks |-> 0,
              run_button |-> "", cancel_button |-> "display-none",
              running_dwave |-> FALSE, running_classical |-> FALSE,
              tab_state |-> "idle", hybrid |-> "idle", scipy |-> "idle",
              visibility |-> <<>>]

NextRun ==
    \/ \E solvers \in SUBSET SolverNames : click_run(solvers)
    \/ click_cancel
    \/ update_tab_loading_state
    \/ run_optimization_hybrid_start
    \/ run_optimization_hybrid_end
    \/ run_optimization_scipy_start
    \/ run_optimization_scipy_end
    \/ update_button_visibility

SpecRun == InitRun /\ [][NextRun]_vars

---------------------------------------------------------------------------
(* Claim about the buttons, checked under SpecRun *)

\* a selected solver's solve is still in progress
SolveInProgress ==
    \/ "HYBRID" \in app.solvers /\ app.hybrid = "solving"
    \/ "HIGHS" \in app.solvers /\ app.scipy = "solving"

\* no response that writes the buttons is under way
ButtonsSettled ==
    /\ app.tab_state = "idle"
    /\ app.visibility = <<>>
    /\ app.hybrid # "requested"
    /\ app.scipy # "requested"

\* Run was clicked and both solver callbacks are over: returned, raised or
\* cancelled
EverySolverOver ==
    /\ app.clicks > 0
    /\ app.hybrid \in {"returned", "raised", "cancelled"}
    /\ app.scipy \in {"returned", "raised", "cancelled"}

\* C30 (as claimed): in every interleaving of the callbacks fired by a
\* click on Run, once the responses that write the buttons have arrived,
\* Run is hidden and Cancel is shown while a selected solver's solve is in
\* progress, and Run is shown and Cancel hidden once every selected solver
\* has finished or Cancel was clicked.
C30_ButtonsFollowTheSolvers ==
    ButtonsSettled =>
        /\ SolveInProgress =>
              (app.run_button = "display-none" /\ app.cancel_button = "")
        /\ (EverySolverOver /\ ~SolveInProgress) =>
              (app.run_button = "" /\ app.cancel_button = "display-none")

===========================================================================
